---- MODULE Spec2Model ----
(***************************************************************************)
(* Recommendation engine of the multi-tenant store builder, with the       *)
(* tenant data router (MultiDatabaseManager) it resolves its data handles  *)
(* through.  Time is counted in days.                                      *)
(***************************************************************************)
EXTENDS Integers, Sequences, FiniteSets, TLC

(* ------------------------------------------------------------------ *)
(* Bounds of the model                                                 *)
(* ------------------------------------------------------------------ *)
MaxStores == 2
MaxRows == 2
MaxLimit == 2
MaxNow == 2
MaxRecs == 2
MaxCalls == 2
MaxViewed == 10
MaxRepeat == 2
MaxPurchases == 10

(* ------------------------------------------------------------------ *)
(* Program constants                                                   *)
(* ------------------------------------------------------------------ *)
DefaultLimit == 10
TrendingWindowDays == 7
RecentWindowDays == 30
MaxSimilarCustomers == 20
RecentViewsUsed == 5
\* mainPool.end() is awaited once: end() of a pool that has ended rejects
MaxCloses == 1
TopCategories == 3
MinTrendingEvents == 2
DefaultAnalyticsDays == 30

(* ------------------------------------------------------------------ *)
(* Value domains                                                       *)
(* ------------------------------------------------------------------ *)
MainUrl == "main"
Urls == {MainUrl, "u1"}
NoStore == "nostore"
StoreIds == 1..MaxStores

NoCustomer == 0
NoProduct == 0
NoQuery == "noquery"
NoTime == 0
NoPool == 0
NoDuration == -1
Actions == {"view", "add_to_cart", "purchase", "remove_from_cart", "search"}
FeedbackActions == {"shown", "clicked", "purchased"}

VARIABLES
    stores,                  \* main database: store id -> databaseUrl (NoStore: no such row)
    nextStoreId,             \* serial of the stores table
    storeDbConnections,      \* handle cache: url -> handle (NoPool: absent)
    storePools,              \* pool cache: url -> pool (NoPool: absent)
    poolsCreated,            \* number of `new Pool` executed so far
    customerBehavior,        \* url -> rows of customer_behavior
    productViews,            \* url -> rows of product_views
    recommendations,         \* url -> rows of recommendations
    productCategoryMappings, \* url -> set of <<productId, categoryId>>
    customerPreferences,     \* url -> set of preference rows
    now,                     \* the database clock, in days
    last                     \* the call in flight: request and what its caller got
                             \* (under SpecConc: the calls in flight, one per caller)

routerVars == <<stores, nextStoreId, storeDbConnections, storePools, poolsCreated>>
dbVars == <<customerBehavior, productViews, recommendations, productCategoryMappings, customerPreferences>>
vars == <<stores, nextStoreId, storeDbConnections, storePools, poolsCreated,
          customerBehavior, productViews, recommendations, productCategoryMappings,
          customerPreferences, now, last>>

(* ------------------------------------------------------------------ *)
(* The call in flight                                                  *)
(* ------------------------------------------------------------------ *)
NoParts == [collaborative |-> <<>>, contentBased |-> <<>>, trending |-> <<>>, recentlyViewed |-> <<>>]
NoFail == [collaborative |-> "none", contentBased |-> "none", trending |-> "none", recentlyViewed |-> "none"]

Idle == [op |-> "none", req |-> <<>>, threw |-> FALSE, result |-> <<>>,
         touched |-> {}, steps |-> <<>>, parts |-> NoParts, fail |-> NoFail]

\* What the caller of operation op got: threw = an error reached the caller;
\* touched = the urls of the data stores the call read or wrote; steps = the
\* storage statements that completed, in order.
Outcome(op, req, threw, result, touched, steps) ==
    [op |-> op, req |-> req, threw |-> threw, result |-> result,
     touched |-> touched, steps |-> steps, parts |-> NoParts, fail |-> NoFail]

TotalRows ==
    LET Sum(f) == f[MainUrl] + f["u1"]
    IN  Sum([u \in Urls |-> Len(customerBehavior[u])])
        + Sum([u \in Urls |-> Len(productViews[u])])

(* ------------------------------------------------------------------ *)
(* Tenant data router                                                  *)
(* ------------------------------------------------------------------ *)
\* storage.getStore: the store row, or undefined
getStore(id) == IF id \in DOMAIN stores THEN stores[id] ELSE NoStore

\* a getStoreDbByUrl that opens a pool on every resolution
getStoreDbByUrlAlwaysNew(conns, pools, created, databaseUrl) ==
    [conns |-> [conns EXCEPT ![databaseUrl] = created + 1],
     pools |-> [pools EXCEPT ![databaseUrl] = created + 1],
     created |-> created + 1]

\* MultiDatabaseManager.getStoreDbByUrl, as the three cache values after the call
getStoreDbByUrl(conns, pools, created, databaseUrl) ==
    IF conns[databaseUrl] = NoPool
    THEN [conns |-> [conns EXCEPT ![databaseUrl] = created + 1],
          pools |-> [pools EXCEPT ![databaseUrl] = created + 1],
          created |-> created + 1]
    ELSE [conns |-> conns, pools |-> pools, created |-> created]

Cache == [conns |-> storeDbConnections, pools |-> storePools, created |-> poolsCreated]

\* RecommendationEngine.getStoreDatabase: lookupFails is a failure of the main
\* database's query.  ok = FALSE is the thrown error.
getStoreDatabase(cache, storeId, lookupFails) ==
    IF lookupFails \/ getStore(storeId) = NoStore
    THEN [ok |-> FALSE, url |-> NoStore, cache |-> cache]
    ELSE [ok |-> TRUE, url |-> getStore(storeId),
          cache |-> getStoreDbByUrl(cache.conns, cache.pools, cache.created, getStore(storeId))]

SetCache(cache) ==
    /\ storeDbConnections' = cache.conns
    /\ storePools' = cache.pools
    /\ poolsCreated' = cache.created

\* storage.createStore: the caller's databaseUrl is stored as given
createStore(databaseUrl) ==
    /\ last.op = "none"
    /\ nextStoreId <= MaxStores
    /\ stores' = [stores EXCEPT ![nextStoreId] = databaseUrl]
    /\ nextStoreId' = nextStoreId + 1
    /\ last' = Outcome("createStore", [storeId |-> nextStoreId], FALSE, <<>>, {}, <<>>)
    /\ UNCHANGED <<storeDbConnections, storePools, poolsCreated, dbVars, now>>

\* storage.deleteStore
deleteStore(id) ==
    /\ last.op = "none"
    /\ stores[id] # NoStore
    /\ stores' = [stores EXCEPT ![id] = NoStore]
    /\ last' = Outcome("deleteStore", [storeId |-> id], FALSE, <<>>, {}, <<>>)
    /\ UNCHANGED <<nextStoreId, storeDbConnections, storePools, poolsCreated, dbVars, now>>

\* MultiDatabaseManager.createStoreDatabase
createStoreDatabase(storeId) ==
    /\ last.op = "none"
    /\ stores' = [stores EXCEPT ![storeId] = IF @ = NoStore THEN NoStore ELSE MainUrl]
    /\ SetCache(getStoreDbByUrl(storeDbConnections, storePools, poolsCreated, MainUrl))
    /\ last' = Outcome("createStoreDatabase", [storeId |-> storeId], FALSE, <<>>, {}, <<>>)
    /\ UNCHANGED <<nextStoreId, dbVars, now>>

(* ------------------------------------------------------------------ *)
(* Behavior tracking                                                   *)
(* ------------------------------------------------------------------ *)
\* the values of the customer_behavior insert
BehaviorRow(data, t) ==
    [customerId |-> data.customerId, sessionId |-> data.sessionId, action |-> data.action,
     productId |-> data.productId, searchQuery |-> data.searchQuery,
     deviceType |-> "desktop", source |-> "direct", timestamp |-> t]

\* a trackBehavior whose failed insert leaves a row behind
trackBehaviorPartialWrite(cb, cache, data, fails, t) ==
    LET db == getStoreDatabase(cache, data.storeId, fails = "lookup")
    IN  IF ~db.ok
        THEN [cb |-> cb, cache |-> db.cache, touched |-> {}, steps |-> <<>>]
        ELSE [cb |-> [cb EXCEPT ![db.url] = Append(@, BehaviorRow(data, t))],
              cache |-> db.cache, touched |-> {db.url},
              steps |-> IF fails = "insert" THEN <<>> ELSE <<"insert customer_behavior">>]

\* a trackBehavior that replaces the log by the new event
trackBehaviorOverwrite(cb, cache, data, fails, t) ==
    LET db == getStoreDatabase(cache, data.storeId, fails = "lookup")
    IN  IF ~db.ok
        THEN [cb |-> cb, cache |-> db.cache, touched |-> {}, steps |-> <<>>]
        ELSE IF fails = "insert"
        THEN [cb |-> cb, cache |-> db.cache, touched |-> {db.url}, steps |-> <<>>]
        ELSE [cb |-> [cb EXCEPT ![db.url] = <<BehaviorRow(data, t)>>],
              cache |-> db.cache, touched |-> {db.url}, steps |-> <<"insert customer_behavior">>]

\* RecommendationEngine.trackBehavior as a function of the state it reads:
\* the log and cache after the call and what the call did.  fails names the
\* statement that throws ("none", "lookup" or "insert").
trackBehavior(cb, cache, data, fails, t) ==
    LET db == getStoreDatabase(cache, data.storeId, fails = "lookup")
    IN  IF ~db.ok
        THEN [cb |-> cb, cache |-> db.cache, touched |-> {}, steps |-> <<>>]
        ELSE IF fails = "insert"
        THEN [cb |-> cb, cache |-> db.cache, touched |-> {db.url}, steps |-> <<>>]
        ELSE [cb |-> [cb EXCEPT ![db.url] = Append(@, BehaviorRow(data, t))],
              cache |-> db.cache, touched |-> {db.url}, steps |-> <<"insert customer_behavior">>]

\* the tracked interactions the specification draws from
Interactions ==
    {<<1, "purchase", 1, NoQuery>>, <<NoCustomer, "view", 1, NoQuery>>,
     <<NoCustomer, "search", NoProduct, "q">>, <<1, "add_to_cart", NoProduct, NoQuery>>}

BehaviorInputs ==
    {[storeId |-> i, customerId |-> x[1], sessionId |-> "s1", action |-> x[2],
      productId |-> x[3], searchQuery |-> x[4]] : i \in StoreIds, x \in Interactions}

TrackBehavior(data, fails) ==
    /\ last.op = "none"
    /\ TotalRows < MaxRows
    /\ LET r == trackBehavior(customerBehavior, Cache, data, fails, now)
       IN  /\ customerBehavior' = r.cb
           /\ SetCache(r.cache)
           /\ last' = Outcome("trackBehavior", data, FALSE, <<>>, r.touched, r.steps)
    /\ UNCHANGED <<stores, nextStoreId, productViews, recommendations,
                   productCategoryMappings, customerPreferences, now>>

\* a view row that drops the duration
ViewRowNoDuration(data, t) ==
    [customerId |-> data.customerId, sessionId |-> data.sessionId, productId |-> data.productId,
     viewDuration |-> 0, timestamp |-> t]

\* the values of the product_views insert
ViewRow(data, t) ==
    [customerId |-> data.customerId, sessionId |-> data.sessionId, productId |-> data.productId,
     viewDuration |-> IF data.viewDuration \in {NoDuration, 0} THEN 0 ELSE data.viewDuration,
     timestamp |-> t]

\* a trackProductView that logs the view event before it writes the view
trackProductViewEventFirst(cb, pv, cache, data, fails, t) ==
    LET db == getStoreDatabase(cache, data.storeId, fails = "lookup")
    IN  IF ~db.ok
        THEN [cb |-> cb, pv |-> pv, cache |-> db.cache, touched |-> {}, steps |-> <<>>]
        ELSE LET b == trackBehavior(cb, db.cache,
                          [storeId |-> data.storeId, customerId |-> data.customerId,
                           sessionId |-> data.sessionId, action |-> "view",
                           productId |-> data.productId, searchQuery |-> NoQuery],
                          CASE fails = "behaviorLookup" -> "lookup"
                            [] fails = "behaviorInsert" -> "insert"
                            [] OTHER -> "none", t)
             IN  IF fails = "insert"
                 THEN [cb |-> b.cb, pv |-> pv, cache |-> b.cache,
                       touched |-> {db.url} \cup b.touched, steps |-> b.steps]
                 ELSE [cb |-> b.cb, pv |-> [pv EXCEPT ![db.url] = Append(@, ViewRow(data, t))],
                       cache |-> b.cache, touched |-> {db.url} \cup b.touched,
                       steps |-> b.steps \o <<"insert product_views">>]

\* RecommendationEngine.trackProductView.  fails names the statement that
\* throws: "lookup" and "insert" are its own, "behaviorLookup" and
\* "behaviorInsert" those of the trackBehavior call it makes.
trackProductView(cb, pv, cache, data, fails, t) ==
    LET db == getStoreDatabase(cache, data.storeId, fails = "lookup")
    IN  IF ~db.ok
        THEN [cb |-> cb, pv |-> pv, cache |-> db.cache, touched |-> {}, steps |-> <<>>]
        ELSE IF fails = "insert"
        THEN [cb |-> cb, pv |-> pv, cache |-> db.cache, touched |-> {db.url}, steps |-> <<>>]
        ELSE LET b == trackBehavior(cb, db.cache,
                          [storeId |-> data.storeId, customerId |-> data.customerId,
                           sessionId |-> data.sessionId, action |-> "view",
                           productId |-> data.productId, searchQuery |-> NoQuery],
                          CASE fails = "behaviorLookup" -> "lookup"
                            [] fails = "behaviorInsert" -> "insert"
                            [] OTHER -> "none", t)
             IN  [cb |-> b.cb, pv |-> [pv EXCEPT ![db.url] = Append(@, ViewRow(data, t))],
                  cache |-> b.cache, touched |-> {db.url} \cup b.touched,
                  steps |-> <<"insert product_views">> \o b.steps]

ViewInputs ==
    {[storeId |-> i, customerId |-> x[1], sessionId |-> "s1", productId |-> 1,
      viewDuration |-> x[2]] : i \in StoreIds, x \in {<<1, 45>>, <<NoCustomer, NoDuration>>, <<1, 0>>}}

TrackProductView(data, fails) ==
    /\ last.op = "none"
    /\ TotalRows + 1 < MaxRows
    /\ LET r == trackProductView(customerBehavior, productViews, Cache, data, fails, now)
       IN  /\ customerBehavior' = r.cb
           /\ productViews' = r.pv
           /\ SetCache(r.cache)
           /\ last' = [Outcome("trackProductView", data, FALSE, <<>>, r.touched, r.steps)
                         EXCEPT !.fail = fails]
    /\ UNCHANGED <<stores, nextStoreId, recommendations,
                   productCategoryMappings, customerPreferences, now>>

(* ------------------------------------------------------------------ *)
(* Scores: exact fractions <<numerator, denominator>>, in lowest terms  *)
(* ------------------------------------------------------------------ *)
RECURSIVE Gcd(_, _)
Gcd(a, b) == IF b = 0 THEN a ELSE Gcd(b, a % b)

Frac(n, d) == LET g == Gcd(n, d) IN IF g = 0 THEN <<0, 1>> ELSE <<n \div g, d \div g>>
FracMul(a, b) == Frac(a[1] * b[1], a[2] * b[2])
FracAdd(a, b) == Frac(a[1] * b[2] + b[1] * a[2], a[2] * b[2])
FracLeq(a, b) == a[1] * b[2] <= b[1] * a[2]
Min(a, b) == IF a < b THEN a ELSE b
Max(a, b) == IF a > b THEN a ELSE b

(* ------------------------------------------------------------------ *)
(* What the SQL of the queries means                                   *)
(* ------------------------------------------------------------------ *)
\* x IN (S) and x NOT IN (S) with SQL's NULL (null stands for it)
SqlIn(x, S, null) == x # null /\ x \in S
\* a NOT IN that filters nothing
SqlNotInNothing(x, S, null) == TRUE

SqlNotIn(x, S, null) == S = {} \/ (x # null /\ null \notin S /\ x \notin S)

\* a joined text spliced into the statement as written, accepted for any count
JoinedAlwaysAccepted(count) == TRUE

\* sql`... NOT IN (${ids.join(',')})`: the joined text is sent as one bind
\* parameter, which the database reads as one integer; a text of count ids is
\* an integer only when count = 1, and the statement is rejected otherwise
JoinedIsInteger(count) == count = 1

\* the NOT IN (excludeProductIds) of a statement is accepted
ExcludeAccepted(excl) == excl = {} \/ JoinedIsInteger(Cardinality(excl))

\* the orders of the groups S by key descending: every order of the ties is
\* a possible answer
RECURSIVE SortedDesc(_, _)
SortedDesc(S, key) ==
    IF S = {} THEN {<<>>}
    ELSE UNION {{<<x>> \o p : p \in SortedDesc(S \ {x}, key)} :
                   x \in {y \in S : \A z \in S : key[y] >= key[z]}}

\* ORDER BY key DESC LIMIT n over the groups S
OrderByDescLimit(S, key, n) ==
    {SubSeq(p, 1, Min(n, Len(p))) : p \in SortedDesc(S, key)}

Range(s) == {s[i] : i \in 1..Len(s)}
Rows(table, P(_)) == {i \in 1..Len(table) : P(table[i])}

(* ------------------------------------------------------------------ *)
(* Recommendation requests                                             *)
(* ------------------------------------------------------------------ *)
NoLimit == -1
NoType == "unspecified"
Types == {"collaborative", "content_based", "trending", "recently_viewed", "hybrid"}

Lim(request) == IF request.limit = NoLimit THEN DefaultLimit ELSE request.limit

Result(productId, score, type, reasons) ==
    [productId |-> productId, score |-> score, type |-> type, reasons |-> reasons]

\* What a strategy call gives its caller: ok = FALSE is a rejected promise.
\* entered = it got its data handle; read = it ran a query on that handle.
Thrown == [ok |-> FALSE, res |-> <<>>, entered |-> FALSE, read |-> FALSE]
Got(res, read) == [ok |-> TRUE, res |-> res, entered |-> TRUE, read |-> read]

Requester(request, row) ==
    IF request.customerId # NoCustomer
    THEN row.customerId = request.customerId
    ELSE row.sessionId = request.sessionId

\* RecommendationEngine.generateCollaborativeRecommendations: the set of
\* answers it can give.  fail: "none", "lookup" (getStoreDatabase throws) or
\* "query" (a query throws).
generateCollaborativeRecommendations(request, fail) ==
    LET db == getStoreDatabase(Cache, request.storeId, fail = "lookup")
        cb == customerBehavior[db.url]
        c == request.customerId
        excl == request.excludeProductIds
        own == {cb[i].productId : i \in Rows(cb, LAMBDA r : r.customerId = c /\ r.action = "purchase")}
        shared == Rows(cb, LAMBDA r : r.action = "purchase" /\ SqlIn(r.productId, own, NoProduct))
        count == [k \in {cb[i].customerId : i \in shared} |->
                     Cardinality({i \in shared : cb[i].customerId = k})]
        similarCustomers == OrderByDescLimit({k \in DOMAIN count : count[k] > 1}, count, MaxSimilarCustomers)
        Answer(similar) ==
            LET similarCustomerIds == Range(similar) \ {c}
                bought == Rows(cb, LAMBDA r :
                              /\ r.action = "purchase"
                              /\ SqlIn(r.customerId, similarCustomerIds, NoCustomer)
                              /\ SqlNotIn(r.productId, own, NoProduct)
                              /\ (excl = {} \/ SqlNotIn(r.productId, excl, NoProduct)))
                n == [p \in {cb[i].productId : i \in bought} |->
                         Cardinality({i \in bought : cb[i].productId = p})]
            IN  IF similar = <<>> \/ ~ExcludeAccepted(excl) THEN {<<>>}
                ELSE {[i \in 1..Len(s) |->
                          Result(s[i], Frac(Min(n[s[i]], 10), 10), "collaborative",
                                 <<"Customers like you also purchased this">>)] :
                        s \in {SelectSeq(q, LAMBDA p : p # NoProduct) :
                                  q \in OrderByDescLimit(DOMAIN n, n, Lim(request))}}
    IN  IF ~db.ok THEN {Thrown}
        ELSE IF c = NoCustomer THEN {Got(<<>>, FALSE)}
        ELSE IF fail = "query" THEN {Got(<<>>, TRUE)}
        ELSE {Got(res, TRUE) : res \in UNION {Answer(similar) : similar \in similarCustomers}}

\* The k most recent of the rows idx of table: every choice among equal
\* timestamps is a possible answer
MostRecent(table, idx, k) ==
    {T \in SUBSET idx :
        /\ Cardinality(T) = Min(k, Cardinality(idx))
        /\ \A a \in T, b \in idx \ T : table[a].timestamp >= table[b].timestamp}

\* a score over the fixed divisor 3
ContentScoreOverThree(categoryCount, selected) == Frac(Min(categoryCount, 3), 3)

\* Math.min(item.categoryCount / topCategoryIds.length, 1)
ContentScore(categoryCount, selected) == Frac(Min(categoryCount, selected), selected)

\* RecommendationEngine.generateContentBasedRecommendations
generateContentBasedRecommendations(request, fail) ==
    LET db == getStoreDatabase(Cache, request.storeId, fail = "lookup")
        pv == productViews[db.url]
        pcm == productCategoryMappings[db.url]
        excl == request.excludeProductIds
        Answer(viewed) ==
            LET viewedProductIds == {pv[i].productId : i \in viewed}
                seen == {m \in pcm : m[1] \in viewedProductIds}
                count == [k \in {m[2] : m \in seen} |-> Cardinality({m \in seen : m[2] = k})]
                Similar(top) ==
                    LET topCategoryIds == Range(top)
                        cand == {m \in pcm : /\ m[2] \in topCategoryIds
                                            /\ SqlNotIn(m[1], viewedProductIds, NoProduct)
                                            /\ m[1] \notin excl}
                        categoryCount == [p \in {m[1] : m \in cand} |->
                                             Cardinality({m \in cand : m[1] = p})]
                    IN  {[i \in 1..Len(s) |->
                             Result(s[i], ContentScore(categoryCount[s[i]], Len(top)),
                                    "content_based", <<"Similar to products you viewed">>)] :
                           s \in OrderByDescLimit(DOMAIN categoryCount, categoryCount, Lim(request))}
            IN  IF viewed = {} \/ seen = {} THEN {<<>>}
                ELSE IF ~JoinedIsInteger(Cardinality(viewed)) \/ ~ExcludeAccepted(excl) THEN {<<>>}
                ELSE UNION {Similar(top) : top \in OrderByDescLimit(DOMAIN count, count, TopCategories)}
    IN  IF ~db.ok THEN {Thrown}
        ELSE IF fail = "query" THEN {Got(<<>>, TRUE)}
        ELSE {Got(res, TRUE) :
                 res \in UNION {Answer(viewed) :
                     viewed \in MostRecent(pv, Rows(pv, LAMBDA r : Requester(request, r)), RecentViewsUsed)}}

\* RecommendationEngine.generateTrendingRecommendations
generateTrendingRecommendations(request, fail) ==
    LET db == getStoreDatabase(Cache, request.storeId, fail = "lookup")
        cb == customerBehavior[db.url]
        excl == request.excludeProductIds
        recent == Rows(cb, LAMBDA r :
                          /\ r.timestamp > now - TrendingWindowDays
                          /\ r.action \in {"view", "purchase"}
                          /\ (excl = {} \/ SqlNotIn(r.productId, excl, NoProduct)))
        Weight(r) == IF r.action = "view" THEN 1 ELSE IF r.action = "purchase" THEN 3 ELSE 0
        Events(p) == {i \in recent : cb[i].productId = p}
        RECURSIVE Sum(_)
        Sum(S) == IF S = {} THEN 0
                  ELSE LET i == CHOOSE j \in S : TRUE IN Weight(cb[i]) + Sum(S \ {i})
        totalScore == [p \in {q \in {cb[i].productId : i \in recent} :
                                  Cardinality(Events(q)) > MinTrendingEvents} |-> Sum(Events(p))]
        Answer(trendingProducts) ==
            LET maxScore == IF trendingProducts = <<>> \/ totalScore[trendingProducts[1]] = 0
                            THEN 1 ELSE totalScore[trendingProducts[1]]
                kept == SelectSeq(trendingProducts, LAMBDA p : p # NoProduct)
            IN  [i \in 1..Len(kept) |->
                    Result(kept[i], Frac(totalScore[kept[i]], maxScore), "trending",
                           <<"Trending this week">>)]
    IN  IF ~db.ok THEN {Thrown}
        ELSE IF fail = "query" \/ ~ExcludeAccepted(excl) THEN {Got(<<>>, TRUE)}
        ELSE {Got(Answer(t), TRUE) : t \in OrderByDescLimit(DOMAIN totalScore, totalScore, Lim(request))}

\* a recency score without the floor
RecentScoreNoFloor(index) == Frac(9 - index, 10)

\* Math.max(0.9 - (index * 0.1), 0.1), index counted from 0
RecentScore(index) == Frac(Max(9 - index, 1), 10)

\* RecommendationEngine.generateRecentlyViewedRecommendations
generateRecentlyViewedRecommendations(request, fail) ==
    LET db == getStoreDatabase(Cache, request.storeId, fail = "lookup")
        pv == productViews[db.url]
        excl == request.excludeProductIds
        mine == Rows(pv, LAMBDA r :
                        /\ Requester(request, r)
                        /\ r.timestamp > now - RecentWindowDays
                        /\ r.productId \notin excl)
        RECURSIVE Latest(_)
        Latest(S) == IF S = {} THEN NoTime
                     ELSE LET i == CHOOSE j \in S : TRUE IN Max(pv[i].timestamp, Latest(S \ {i}))
        lastViewed == [p \in {pv[i].productId : i \in mine} |->
                          Latest({i \in mine : pv[i].productId = p})]
    IN  IF ~db.ok THEN {Thrown}
        ELSE IF fail = "query" \/ ~ExcludeAccepted(excl) THEN {Got(<<>>, TRUE)}
        ELSE {Got([i \in 1..Len(s) |->
                      Result(s[i], RecentScore(i - 1), "recently_viewed",
                             <<"You viewed this recently">>)], TRUE) :
                 s \in OrderByDescLimit(DOMAIN lastViewed, lastViewed, Lim(request))}

(* ------------------------------------------------------------------ *)
(* Hybrid combiner                                                     *)
(* ------------------------------------------------------------------ *)
\* Math.ceil(limit * tenths / 10)
CeilShare(limit, tenths) == (limit * tenths + 9) \div 10

\* the strategies' scores merged unweighted
WeightedNone(results, tenths) == results

\* results.map(r => ({ ...r, score: r.score * 0.4 })), the weight in tenths
Weighted(results, tenths) ==
    [i \in 1..Len(results) |-> [results[i] EXCEPT !.score = FracMul(@, Frac(tenths, 10))]]

\* [...new Set([...a, ...b])]
RECURSIVE UnionReasons(_, _)
UnionReasons(a, b) ==
    IF b = <<>> THEN a
    ELSE UnionReasons(IF Head(b) \in Range(a) THEN a ELSE Append(a, Head(b)), Tail(b))

\* a merge that keeps every strategy's entry apart
DeduplicateNone(all, acc) == [i \in 1..Len(all) |-> [all[i] EXCEPT !.type = "hybrid"]]

\* The forEach over allRecommendations: acc is the Map's values in insertion order
RECURSIVE Deduplicate(_, _)
Deduplicate(all, acc) ==
    IF all = <<>> THEN acc
    ELSE LET rec == Head(all)
             at == {i \in 1..Len(acc) : acc[i].productId = rec.productId}
         IN  IF at # {}
             THEN LET i == CHOOSE j \in at : TRUE
                  IN  Deduplicate(Tail(all),
                          [acc EXCEPT ![i] = [@ EXCEPT !.score = FracAdd(@, rec.score),
                                                       !.reasons = UnionReasons(@, rec.reasons),
                                                       !.type = "hybrid"]])
             ELSE Deduplicate(Tail(all), Append(acc, [rec EXCEPT !.type = "hybrid"]))

\* the merged list left in merge order
SortByScoreNone(s) == s

\* Array.sort((a, b) => b.score - a.score): stable, descending
RECURSIVE SortByScore(_)
SortByScore(s) ==
    IF s = <<>> THEN <<>>
    ELSE LET rest == SortByScore(SubSeq(s, 1, Len(s) - 1))
             x == s[Len(s)]
             k == Cardinality({i \in 1..Len(rest) : FracLeq(x.score, rest[i].score)})
         IN  SubSeq(rest, 1, k) \o <<x>> \o SubSeq(rest, k + 1, Len(rest))

\* slice left out
SliceNone(s, n) == s

\* Array.slice(0, n)
Slice(s, n) == SubSeq(s, 1, Min(n, Len(s)))

\* The merge of the four awaited arrays (the body after Promise.all)
Combine(collaborative, contentBased, trending, recentlyViewed, limit) ==
    Slice(SortByScore(Deduplicate(Weighted(collaborative, 4) \o Weighted(contentBased, 3)
                                  \o Weighted(trending, 2) \o Weighted(recentlyViewed, 1), <<>>)),
          limit)

\* RecommendationEngine.generateHybridRecommendations.  A strategy whose promise
\* rejects makes Promise.all reject, and the catch returns [].
generateHybridRecommendations(request, fail) ==
    LET limit == Lim(request)
        Share(tenths) == [request EXCEPT !.limit = CeilShare(limit, tenths)]
    IN  {[ok |-> TRUE,
          res |-> IF c.ok /\ b.ok /\ t.ok /\ r.ok
                  THEN Combine(c.res, b.res, t.res, r.res, limit) ELSE <<>>,
          entered |-> c.entered \/ b.entered \/ t.entered \/ r.entered,
          read |-> c.read \/ b.read \/ t.read \/ r.read,
          parts |-> [collaborative |-> c.res, contentBased |-> b.res,
                     trending |-> t.res, recentlyViewed |-> r.res]] :
            c \in generateCollaborativeRecommendations(Share(3), fail.collaborative),
            b \in generateContentBasedRecommendations(Share(3), fail.contentBased),
            t \in generateTrendingRecommendations(Share(2), fail.trending),
            r \in generateRecentlyViewedRecommendations(Share(2), fail.recentlyViewed)}

\* the catch of generateRecommendations left out: the rejection reaches the caller
Uncaught(o) ==
    [threw |-> ~o.ok, result |-> o.res, entered |-> o.entered, read |-> o.read, parts |-> o.parts]

\* the try/catch of generateRecommendations around the strategy's answer o
Caught(o) ==
    [threw |-> FALSE, result |-> IF o.ok THEN o.res ELSE <<>>,
     entered |-> o.entered, read |-> o.read, parts |-> o.parts]

\* RecommendationEngine.generateRecommendations: the switch, inside its try
generateRecommendations(request, fail) ==
    LET Single(outs) == {[ok |-> o.ok, res |-> o.res, entered |-> o.entered,
                          read |-> o.read, parts |-> NoParts] : o \in outs}
        outs == CASE request.type = "collaborative" ->
                         Single(generateCollaborativeRecommendations(request, fail.collaborative))
                  [] request.type = "content_based" ->
                         Single(generateContentBasedRecommendations(request, fail.contentBased))
                  [] request.type = "trending" ->
                         Single(generateTrendingRecommendations(request, fail.trending))
                  [] request.type = "recently_viewed" ->
                         Single(generateRecentlyViewedRecommendations(request, fail.recentlyViewed))
                  [] OTHER -> generateHybridRecommendations(request, fail)
    IN  {Caught(o) : o \in outs}

StrategyFails == {"none", "lookup", "query"}
AllFails == [collaborative : StrategyFails, contentBased : StrategyFails,
             trending : StrategyFails, recentlyViewed : StrategyFails]
\* the failures a request of the given type can meet
FailChoices(type) ==
    CASE type = "collaborative" -> {f \in AllFails : f = [NoFail EXCEPT !.collaborative = f.collaborative]}
      [] type = "content_based" -> {f \in AllFails : f = [NoFail EXCEPT !.contentBased = f.contentBased]}
      [] type = "trending" -> {f \in AllFails : f = [NoFail EXCEPT !.trending = f.trending]}
      [] type = "recently_viewed" -> {f \in AllFails : f = [NoFail EXCEPT !.recentlyViewed = f.recentlyViewed]}
      [] OTHER -> AllFails

\* n / d rounded to the nearest integer, halves away from zero (n, d >= 0)
RoundDiv(n, d) == (2 * n + d) \div (2 * d)

\* a decimal(5, 4) column holds ten-thousandths
Decimal4(score) == RoundDiv(score[1] * 10000, score[2])

RecommendationRow(request, result, t) ==
    [customerId |-> request.customerId, sessionId |-> request.sessionId,
     productId |-> result.productId, recommendationType |-> result.type,
     score |-> Decimal4(result.score), reasons |-> result.reasons,
     shown |-> FALSE, clicked |-> FALSE, purchased |-> FALSE,
     shownAt |-> NoTime, clickedAt |-> NoTime, purchasedAt |-> NoTime, createdAt |-> t]

\* a generateRecommendations that hands its answer to storeRecommendations
GenerateRecommendationsStored(request, fail) ==
    /\ last.op = "none"
    /\ \E o \in generateRecommendations(request, fail) :
          /\ SetCache(IF o.entered
                      THEN getStoreDbByUrl(storeDbConnections, storePools, poolsCreated,
                                           getStore(request.storeId))
                      ELSE Cache)
          /\ recommendations' =
                IF o.entered /\ Len(recommendations[getStore(request.storeId)]) < MaxRecs
                THEN [recommendations EXCEPT ![getStore(request.storeId)] =
                         @ \o [i \in 1..Len(o.result) |-> RecommendationRow(request, o.result[i], now)]]
                ELSE recommendations
          /\ last' = [Outcome("generateRecommendations", request, o.threw, o.result,
                              IF o.read THEN {getStore(request.storeId)} ELSE {}, <<>>)
                        EXCEPT !.parts = o.parts, !.fail = fail]
    /\ UNCHANGED <<stores, nextStoreId, customerBehavior, productViews,
                   productCategoryMappings, customerPreferences, now>>

\* RecommendationEngine.generateRecommendations is called and answers: the
\* answer goes to the caller and nothing is written
GenerateRecommendations(request, fail) ==
    /\ last.op = "none"
    /\ \E o \in generateRecommendations(request, fail) :
          /\ SetCache(IF o.entered
                      THEN getStoreDbByUrl(storeDbConnections, storePools, poolsCreated,
                                           getStore(request.storeId))
                      ELSE Cache)
          /\ last' = [Outcome("generateRecommendations", request, o.threw, o.result,
                              IF o.read THEN {getStore(request.storeId)} ELSE {}, <<>>)
                        EXCEPT !.parts = o.parts, !.fail = fail]
    /\ UNCHANGED <<stores, nextStoreId, dbVars, now>>

(* ------------------------------------------------------------------ *)
(* Persisted recommendations, feedback, analytics, preferences         *)
(* ------------------------------------------------------------------ *)
\* RecommendationEngine.storeRecommendations (private; no public operation calls it)
storeRecommendations(request, recommendationResults, fails) ==
    /\ last.op = "none"
    /\ LET db == getStoreDatabase(Cache, request.storeId, fails = "lookup")
       IN  /\ SetCache(db.cache)
           /\ recommendations' =
                 IF db.ok /\ fails = "none"
                 THEN [recommendations EXCEPT ![db.url] =
                          @ \o [i \in 1..Len(recommendationResults) |->
                                   RecommendationRow(request, recommendationResults[i], now)]]
                 ELSE recommendations
           /\ last' = Outcome("storeRecommendations", request, ~db.ok, <<>>,
                              IF db.ok /\ fails = "none" /\ recommendationResults # <<>>
                              THEN {db.url} ELSE {}, <<>>)
    /\ UNCHANGED <<stores, nextStoreId, customerBehavior, productViews,
                   productCategoryMappings, customerPreferences, now>>

TimeField(action) ==
    CASE action = "shown" -> "shownAt"
      [] action = "clicked" -> "clickedAt"
      [] action = "purchased" -> "purchasedAt"

\* a WHERE that matches by sessionId whether or not a customerId is given
FeedbackMatchesBySession(data, row) ==
    /\ row.sessionId = data.sessionId
    /\ row.productId = data.productId

\* the WHERE of the feedback UPDATE
FeedbackMatches(data, row) ==
    /\ IF data.customerId # NoCustomer
       THEN row.customerId = data.customerId
       ELSE row.sessionId = data.sessionId
    /\ row.productId = data.productId

\* a SET that writes all three flags
FeedbackSetOverwrite(row, action, t) ==
    [row EXCEPT !.shown = (action = "shown"), !.clicked = (action = "clicked"),
                !.purchased = (action = "purchased"), ![TimeField(action)] = t]

\* a SET that flips the flag
FeedbackSetToggle(row, action, t) == [row EXCEPT ![action] = ~@, ![TimeField(action)] = t]

\* the SET of the feedback UPDATE
FeedbackSet(row, action, t) == [row EXCEPT ![action] = TRUE, ![TimeField(action)] = t]

\* RecommendationEngine.trackRecommendationFeedback.  fails: "none", "lookup"
\* (thrown to the caller) or "update" (caught).
trackRecommendationFeedback(data, fails) ==
    /\ last.op = "none"
    /\ LET db == getStoreDatabase(Cache, data.storeId, fails = "lookup")
       IN  /\ SetCache(db.cache)
           /\ recommendations' =
                 IF db.ok /\ fails = "none"
                 THEN [recommendations EXCEPT ![db.url] =
                          [i \in 1..Len(@) |->
                              IF FeedbackMatches(data, @[i])
                              THEN FeedbackSet(@[i], data.action, now) ELSE @[i]]]
                 ELSE recommendations
           /\ last' = Outcome("trackRecommendationFeedback", data, ~db.ok, <<>>,
                              IF db.ok THEN {db.url} ELSE {},
                              IF db.ok /\ fails = "none" THEN <<"update recommendations">> ELSE <<>>)
    /\ UNCHANGED <<stores, nextStoreId, customerBehavior, productViews,
                   productCategoryMappings, customerPreferences, now>>

\* the SELECT of getRecommendationAnalytics: one row per type with a shown
\* recommendation in the window; rates in hundredths of a percent
AnalyticsRows(recs, days, t) ==
    LET shown == Rows(recs, LAMBDA r : r.shown /\ r.createdAt > t - days)
        Of(ty) == {i \in shown : recs[i].recommendationType = ty}
    IN  {[recommendationType |-> ty,
          totalShown |-> Cardinality(Of(ty)),
          totalClicked |-> Cardinality({i \in Of(ty) : recs[i].clicked}),
          totalPurchased |-> Cardinality({i \in Of(ty) : recs[i].purchased}),
          clickThroughRate |-> RoundDiv(Cardinality({i \in Of(ty) : recs[i].clicked}) * 10000,
                                        Cardinality(Of(ty))),
          conversionRate |-> RoundDiv(Cardinality({i \in Of(ty) : recs[i].purchased}) * 10000,
                                      Cardinality(Of(ty)))] :
            ty \in {recs[i].recommendationType : i \in shown}}

\* drizzle's sql template: an interpolated value is sent as a bind parameter
\* and the statement text holds its placeholder
BindParam(index, value) == [kind |-> "placeholder", index |-> index, value |-> value]

\* sql`NOW() - INTERVAL '${days} days'`: the text between the quotes
IntervalLiteral(days) == <<BindParam(1, days), [kind |-> "text", value |-> "days"]>>

Rejected == "rejected"

\* the database reading an interval literal: a number of days, or a syntax
\* error when the quoted text does not start with a number
ParseInterval(literal) == IF literal[1].kind = "number" THEN literal[1].value ELSE Rejected

\* RecommendationEngine.getRecommendationAnalytics.  fails: "none", "lookup"
\* (thrown to the caller) or "query" (the connection fails; caught).
getRecommendationAnalytics(storeId, days, fails) ==
    /\ last.op = "none"
    /\ LET db == getStoreDatabase(Cache, storeId, fails = "lookup")
           window == ParseInterval(IntervalLiteral(days))
       IN  /\ SetCache(db.cache)
           /\ last' = Outcome("getRecommendationAnalytics", [storeId |-> storeId, days |-> days],
                              ~db.ok,
                              IF db.ok /\ fails = "none" /\ window # Rejected
                              THEN AnalyticsRows(recommendations[db.url], window, now) ELSE {},
                              IF db.ok THEN {db.url} ELSE {},
                              IF db.ok /\ fails = "none" THEN <<"select recommendations">> ELSE <<>>)
    /\ UNCHANGED <<stores, nextStoreId, dbVars, now>>

\* the SELECT of updateCustomerPreferences: category -> strength, as a fraction
CategoryPreferences(cb, pcm, customerId) ==
    LET mine == Rows(cb, LAMBDA r : r.customerId = customerId)
        joined == {<<i, m>> \in mine \X pcm : cb[i].productId = m[1]}
    IN  [k \in {j[2][2] : j \in joined} |->
            Frac(Cardinality({j \in joined : j[2][2] = k}), Cardinality(mine))]

\* the unique constraints of customer_preferences: its primary key only
PreferenceUniqueKeys == {{"id"}}

\* the conflict target of the upsert
ConflictTarget == {"customerId", "preferenceType", "preferenceValue"}

\* ON CONFLICT (target) is accepted by the database only when a unique
\* constraint of the table covers exactly the target's columns
ConflictTargetAccepted(target, uniqueKeys) == target \in uniqueKeys

\* insert ... onConflictDoUpdate on (customerId, preferenceType, preferenceValue)
Upsert(prefs, customerId, categoryId, strength, t) ==
    IF \E r \in prefs : r.customerId = customerId /\ r.preferenceType = "category"
                        /\ r.preferenceValue = categoryId
    THEN {IF r.customerId = customerId /\ r.preferenceType = "category"
             /\ r.preferenceValue = categoryId
          THEN [r EXCEPT !.strength = Decimal4(strength)] ELSE r : r \in prefs}
    ELSE prefs \cup {[customerId |-> customerId, preferenceType |-> "category",
                      preferenceValue |-> categoryId, strength |-> Decimal4(strength),
                      createdAt |-> t, updatedAt |-> t]}

RECURSIVE UpsertAll(_, _, _, _, _)
UpsertAll(prefs, customerId, cats, strength, t) ==
    IF cats = <<>> THEN prefs
    ELSE UpsertAll(Upsert(prefs, customerId, Head(cats), strength[Head(cats)], t),
                   customerId, Tail(cats), strength, t)

\* RecommendationEngine.updateCustomerPreferences.  fails: "none", "lookup"
\* (thrown to the caller), "query" or "upsert" (caught; the upserts before the
\* failing one, done of them, stay).  An upsert whose conflict target the
\* database does not accept is rejected, so the first one ends the loop.
updateCustomerPreferences(storeId, customerId, fails, done) ==
    /\ last.op = "none"
    /\ LET db == getStoreDatabase(Cache, storeId, fails = "lookup")
       IN  /\ SetCache(db.cache)
           /\ IF /\ db.ok
                 /\ fails \in {"none", "upsert"}
                 /\ ConflictTargetAccepted(ConflictTarget, PreferenceUniqueKeys)
              THEN LET strength == CategoryPreferences(customerBehavior[db.url],
                                       productCategoryMappings[db.url], customerId)
                       n == [k \in DOMAIN strength |-> (strength[k][1] * 10000) \div strength[k][2]]
                   IN  \E order \in OrderByDescLimit(DOMAIN strength, n, Cardinality(DOMAIN strength)) :
                          /\ fails = "upsert" => done < Len(order)
                          /\ customerPreferences' =
                                [customerPreferences EXCEPT ![db.url] =
                                    UpsertAll(@, customerId,
                                              IF fails = "upsert" THEN SubSeq(order, 1, done) ELSE order,
                                              strength, now)]
              ELSE customerPreferences' = customerPreferences
           /\ last' = [Outcome("updateCustomerPreferences",
                               [storeId |-> storeId, customerId |-> customerId], ~db.ok, <<>>,
                               IF db.ok THEN {db.url} ELSE {}, <<>>)
                        EXCEPT !.fail = fails]
    /\ UNCHANGED <<stores, nextStoreId, customerBehavior, productViews, recommendations,
                   productCategoryMappings, now>>

\* The caller takes the answer; the engine is ready for the next call.
Return ==
    /\ last.op # "none"
    /\ last' = Idle
    /\ UNCHANGED <<routerVars, dbVars, now>>

(* ------------------------------------------------------------------ *)
(* Specification of the router and the tracking calls                  *)
(* ------------------------------------------------------------------ *)
Init ==
    /\ stores = [i \in StoreIds |-> NoStore]
    /\ nextStoreId = 1
    /\ storeDbConnections = [u \in Urls |-> NoPool]
    /\ storePools = [u \in Urls |-> NoPool]
    /\ poolsCreated = 0
    /\ customerBehavior = [u \in Urls |-> <<>>]
    /\ productViews = [u \in Urls |-> <<>>]
    /\ recommendations = [u \in Urls |-> <<>>]
    /\ productCategoryMappings = [u \in Urls |-> {<<1, 1>>}]
    /\ customerPreferences = [u \in Urls |-> {}]
    /\ now = 1
    /\ last = Idle

\* The requests the store-level specification draws from
SmallRequests ==
    [storeId : StoreIds, customerId : {1}, sessionId : {"s1"}, limit : {NoLimit},
     excludeProductIds : {{}}, type : Types \cup {NoType}]
SmallFails == {NoFail, [collaborative |-> "lookup", contentBased |-> "lookup",
                        trending |-> "lookup", recentlyViewed |-> "lookup"]}
SmallFeedback ==
    [storeId : StoreIds, customerId : {NoCustomer}, sessionId : {"s1"}, productId : {1},
     action : {"clicked"}]

Next ==
    \/ \E u \in Urls : createStore(u)
    \/ \E i \in StoreIds : deleteStore(i)
    \/ \E i \in StoreIds : createStoreDatabase(i)
    \/ /\ last.op = "none"
       /\ \E d \in BehaviorInputs, f \in {"none", "lookup", "insert"} : TrackBehavior(d, f)
    \/ /\ last.op = "none"
       /\ \E d \in ViewInputs, f \in {"none", "lookup", "insert", "behaviorLookup", "behaviorInsert"} :
             TrackProductView(d, f)
    \/ /\ last.op = "none"
       /\ \E request \in SmallRequests, fail \in SmallFails : GenerateRecommendations(request, fail)
    \/ \E d \in SmallFeedback, f \in {"none", "lookup", "update"} : trackRecommendationFeedback(d, f)
    \/ \E i \in StoreIds, f \in {"none", "lookup", "query"} :
          getRecommendationAnalytics(i, DefaultAnalyticsDays, f)
    \/ \E i \in StoreIds, f \in {"none", "lookup", "query", "upsert"} :
          updateCustomerPreferences(i, 1, f, 0)
    \/ Return

Spec == Init /\ [][Next]_vars

(* ------------------------------------------------------------------ *)
(* Specification of recommendation generation: store 1 exists, its     *)
(* logs and catalog are drawn from the seeds below, and requests of     *)
(* every type are answered                                              *)
(* ------------------------------------------------------------------ *)
SeedNow == 40
Products == 1..3

Event(c, sess, a, p, t) ==
    BehaviorRow([customerId |-> c, sessionId |-> sess, action |-> a, productId |-> p,
                 searchQuery |-> NoQuery], t)

RECURSIVE SetToSeq(_)
SetToSeq(S) == IF S = {} THEN <<>>
               ELSE LET x == CHOOSE y \in S : \A z \in S : y <= z IN <<x>> \o SetToSeq(S \ {x})

\* customer -> the products the customer purchased, one purchase event each
PurchaseSeeds ==
    {<<{}, {}>>, <<{1, 2}, {1, 2, 3}>>, <<{1, 2}, {1, 3}>>}

PurchaseLog(seed) ==
    LET Of(c) == [i \in 1..Cardinality(seed[c]) |->
                     Event(c, "s1", "purchase", SetToSeq(seed[c])[i], SeedNow - 1)]
    IN  Of(1) \o Of(2)

\* anonymous view events of session s2: <<product, how many, days ago>>
BrowseSeeds ==
    {<<>>, <<<<NoProduct, 4, 1>>, <<2, 3, 1>>>>, <<<<1, 3, 2>>, <<3, 3, 2>>>>, <<<<3, 3, 8>>>>}

RECURSIVE BrowseLog(_)
BrowseLog(seed) ==
    IF seed = <<>> THEN <<>>
    ELSE [i \in 1..Head(seed)[2] |->
             Event(NoCustomer, "s2", "view", Head(seed)[1], SeedNow - Head(seed)[3])]
         \o BrowseLog(Tail(seed))

\* the products customer 1 viewed in session s1, oldest first: <<product, days ago>>
ViewSeeds ==
    {<<>>, <<<<1, 2>>, <<3, 1>>>>, <<<<2, 3>>, <<1, 3>>, <<3, 1>>>>, <<<<3, 31>>>>}

ViewLog(seed) ==
    [i \in 1..Len(seed) |->
        [customerId |-> 1, sessionId |-> "s1", productId |-> seed[i][1],
         viewDuration |-> 45, timestamp |-> SeedNow - seed[i][2]]]

MappingSeeds ==
    {{<<1, 1>>, <<2, 1>>, <<3, 1>>}, {<<1, 1>>, <<1, 2>>, <<2, 1>>, <<2, 2>>, <<3, 2>>}}

Limits == {NoLimit} \cup 0..MaxLimit
ExcludeSets == {{}, {3}, {1, 2}}
RecRequests ==
    [storeId : StoreIds, customerId : {NoCustomer, 1}, sessionId : {"s1"}, limit : Limits,
     excludeProductIds : ExcludeSets, type : Types \cup {NoType}]

InitRec ==
    /\ stores = [i \in StoreIds |-> IF i = 1 THEN MainUrl ELSE NoStore]
    /\ nextStoreId = 2
    /\ storeDbConnections = [u \in Urls |-> NoPool]
    /\ storePools = [u \in Urls |-> NoPool]
    /\ poolsCreated = 0
    /\ \E p \in PurchaseSeeds, b \in BrowseSeeds :
          customerBehavior = [u \in Urls |-> IF u = MainUrl THEN PurchaseLog(p) \o BrowseLog(b) ELSE <<>>]
    /\ \E v \in ViewSeeds : productViews = [u \in Urls |-> IF u = MainUrl THEN ViewLog(v) ELSE <<>>]
    /\ recommendations = [u \in Urls |-> <<>>]
    /\ \E m \in MappingSeeds : productCategoryMappings = [u \in Urls |-> IF u = MainUrl THEN m ELSE {}]
    /\ customerPreferences = [u \in Urls |-> {}]
    /\ now = SeedNow
    /\ last = Idle

NextRec ==
    \/ /\ last.op = "none"
       /\ \E request \in RecRequests : \E fail \in FailChoices(request.type) :
             GenerateRecommendations(request, fail)
    \/ Return

SpecRec == InitRec /\ [][NextRec]_vars
(* ------------------------------------------------------------------ *)
(* Specification of the feedback loop: store 1 exists; recommendations *)
(* are persisted by storeRecommendations, then flagged and aggregated   *)
(* ------------------------------------------------------------------ *)
Tick ==
    /\ last.op = "none"
    /\ now < MaxNow
    /\ now' = now + 1
    /\ UNCHANGED <<routerVars, dbVars, last>>

PersistRequests ==
    {[storeId |-> 1, customerId |-> x[1], sessionId |-> x[2]] :
        x \in {<<1, "s2">>, <<NoCustomer, "s1">>}}
PersistResults ==
    {<<Result(1, <<1, 1>>, "trending", <<"Trending this week">>)>>,
     <<Result(1, <<1, 3>>, "hybrid", <<"Trending this week", "You viewed this recently">>),
       Result(2, <<1, 10>>, "hybrid", <<"You viewed this recently">>)>>}
FeedbackInputs ==
    {[storeId |-> 1, customerId |-> x[1], sessionId |-> x[2], productId |-> p, action |-> a] :
        x \in {<<1, "s1">>, <<NoCustomer, "s1">>}, p \in {1}, a \in FeedbackActions}

InitFeedback ==
    /\ stores = [i \in StoreIds |-> IF i = 1 THEN MainUrl ELSE NoStore]
    /\ nextStoreId = 2
    /\ storeDbConnections = [u \in Urls |-> NoPool]
    /\ storePools = [u \in Urls |-> NoPool]
    /\ poolsCreated = 0
    /\ customerBehavior = [u \in Urls |-> <<>>]
    /\ productViews = [u \in Urls |-> <<>>]
    /\ recommendations = [u \in Urls |-> <<>>]
    /\ productCategoryMappings = [u \in Urls |-> {}]
    /\ customerPreferences = [u \in Urls |-> {}]
    /\ now = 1
    /\ last = Idle

NextFeedback ==
    \/ \E request \in PersistRequests, results \in PersistResults, f \in {"none", "lookup", "insert"} :
          /\ Len(recommendations[MainUrl]) + Len(results) <= MaxRecs
          /\ storeRecommendations(request, results, f)
    \/ \E d \in FeedbackInputs, f \in {"none", "lookup", "update"} : trackRecommendationFeedback(d, f)
    \/ \E days \in {1, DefaultAnalyticsDays}, f \in {"none", "lookup", "query"} :
          getRecommendationAnalytics(1, days, f)
    \/ Tick
    \/ Return

SpecFeedback == InitFeedback /\ [][NextFeedback]_vars
(* ------------------------------------------------------------------ *)
(* Specification of concurrent callers: stores 1 and 2 exist, each     *)
(* caller runs trackRecommendationFeedback one await at a time, and    *)
(* closeAllConnections runs beside them                                *)
(* ------------------------------------------------------------------ *)
Procs == 1..MaxCalls

NoCall == [pc |-> "idle"]

\* the feedback the concurrent callers send
ConcFeedback ==
    {[storeId |-> x[1], customerId |-> 1, sessionId |-> "s1", productId |-> 1, action |-> x[2]] :
        x \in {<<1, "shown">>, <<1, "clicked">>, <<2, "purchased">>}}

SeedRec(customerId, productId) ==
    RecommendationRow([storeId |-> 1, customerId |-> customerId, sessionId |-> "s1"],
                      Result(productId, <<1, 2>>, "trending", <<"Trending this week">>), 1)

InitConc ==
    /\ stores = [i \in StoreIds |-> IF i = 1 THEN MainUrl ELSE IF i = 2 THEN "u1" ELSE NoStore]
    /\ nextStoreId = 3
    /\ storeDbConnections = [u \in Urls |-> NoPool]
    /\ storePools = [u \in Urls |-> NoPool]
    /\ poolsCreated = 0
    /\ customerBehavior = [u \in Urls |-> <<>>]
    /\ productViews = [u \in Urls |-> <<>>]
    /\ recommendations = [u \in Urls |-> IF u = MainUrl THEN <<SeedRec(1, 1), SeedRec(1, 2)>>
                                                       ELSE <<SeedRec(1, 1)>>]
    /\ productCategoryMappings = [u \in Urls |-> {}]
    /\ customerPreferences = [u \in Urls |-> {}]
    /\ now = 1
    /\ last = [op |-> "concurrent", calls |-> [p \in Procs |-> NoCall], completed |-> {},
               raced |-> FALSE, closing |-> FALSE, closes |-> 0,
               stage |-> "main", todo |-> {}, ended |-> {}]

\* trackRecommendationFeedback is called: it runs to its first await, the
\* store lookup of getStoreDatabase
BeginFeedback(p, data) ==
    /\ last.op = "concurrent"
    /\ last.calls[p].pc = "idle"
    /\ last' = [last EXCEPT !.calls[p] = [pc |-> "lookup", req |-> data]]
    /\ UNCHANGED <<routerVars, dbVars, now>>

\* the store lookup answers: getStoreDatabase throws to the caller, or calls
\* getStoreDbByUrl (no await in it) and the call reaches the await of its UPDATE
ResolveStore(p, lookupFails) ==
    /\ last.op = "concurrent"
    /\ last.calls[p].pc = "lookup"
    /\ LET db == getStoreDatabase(Cache, last.calls[p].req.storeId, lookupFails)
       IN  /\ SetCache(db.cache)
           /\ last' = [last EXCEPT !.calls[p] =
                          IF db.ok
                          THEN [pc |-> "update", req |-> @.req, url |-> db.url,
                                handle |-> db.cache.conns[db.url], closes |-> last.closes]
                          ELSE NoCall]
    /\ UNCHANGED <<stores, nextStoreId, dbVars, now>>

\* another caller's UPDATE of the same rows with another flag is pending
Racing(p) ==
    \E q \in Procs \ {p} :
        /\ last.calls[q].pc = "update"
        /\ last.calls[q].url = last.calls[p].url
        /\ last.calls[q].req.action # last.calls[p].req.action

\* the UPDATE statement runs in the tenant database, or fails and is caught;
\* the call returns
RunUpdate(p, updateFails) ==
    /\ last.op = "concurrent"
    /\ last.calls[p].pc = "update"
    /\ LET c == last.calls[p]
       IN  /\ recommendations' =
                 IF updateFails THEN recommendations
                 ELSE [recommendations EXCEPT ![c.url] =
                          [i \in 1..Len(@) |->
                              IF FeedbackMatches(c.req, @[i])
                              THEN FeedbackSet(@[i], c.req.action, now) ELSE @[i]]]
           /\ last' = [last EXCEPT !.calls[p] = NoCall,
                                   !.completed = IF updateFails THEN @
                                                 ELSE @ \cup {[url |-> c.url, req |-> c.req]},
                                   !.raced = @ \/ (~updateFails /\ Racing(p))]
    /\ UNCHANGED <<routerVars, customerBehavior, productViews, productCategoryMappings,
                   customerPreferences, now>>

\* MultiDatabaseManager.closeAllConnections is called: it runs to its first
\* await, mainPool.end().  A pool can be ended once (MaxCloses): end() of a
\* pool that is ending rejects, so a further call throws at this await.
closeAllConnectionsBegin ==
    /\ last.op = "concurrent"
    /\ ~last.closing
    /\ last.closes < MaxCloses
    /\ last' = [last EXCEPT !.closing = TRUE, !.stage = "main", !.todo = {}]
    /\ UNCHANGED <<routerVars, dbVars, now>>

\* the store pools closeAllConnections has still to end when an await of it
\* resolves: after mainPool.end() the copy Array.from(storePools.values())
\* taken at that moment, after a pool's end() the rest of that copy
PoolsToEnd ==
    IF last.stage = "main"
    THEN {storePools[u] : u \in {v \in Urls : storePools[v] # NoPool}}
    ELSE last.todo

\* closeAllConnections, an await resolved and the loop has a pool left: the
\* loop calls its end() and awaits it.  The Map yields the pools in insertion
\* order, which is the order of their creation.
closeAllConnectionsEndPool ==
    /\ last.op = "concurrent"
    /\ last.closing
    /\ PoolsToEnd # {}
    /\ LET pool == CHOOSE x \in PoolsToEnd : \A y \in PoolsToEnd : x <= y
       IN  last' = [last EXCEPT !.stage = "pools", !.todo = PoolsToEnd \ {pool},
                                !.ended = @ \cup {pool}]
    /\ UNCHANGED <<routerVars, dbVars, now>>

\* closeAllConnections, an await resolved and the loop has no pool left: both
\* caches are cleared and the call returns
closeAllConnectionsClear ==
    /\ last.op = "concurrent"
    /\ last.closing
    /\ PoolsToEnd = {}
    /\ storeDbConnections' = [u \in Urls |-> NoPool]
    /\ storePools' = [u \in Urls |-> NoPool]
    /\ last' = [last EXCEPT !.closing = FALSE, !.closes = @ + 1, !.stage = "main", !.todo = {}]
    /\ UNCHANGED <<stores, nextStoreId, poolsCreated, dbVars, now>>

NextConc ==
    \/ \E p \in Procs, d \in ConcFeedback : BeginFeedback(p, d)
    \/ \E p \in Procs, f \in BOOLEAN : ResolveStore(p, f)
    \/ \E p \in Procs, f \in BOOLEAN : RunUpdate(p, f)
    \/ closeAllConnectionsBegin
    \/ closeAllConnectionsEndPool
    \/ closeAllConnectionsClear

SpecConc == InitConc /\ [][NextConc]_vars

(* ------------------------------------------------------------------ *)
(* Specification of the recently-viewed ranking: store 1 exists and    *)
(* customer 1 viewed up to MaxViewed products, one per day              *)
(* ------------------------------------------------------------------ *)
\* views of products 1..k, product i viewed offset + i days ago
DailyViews(k, offset) ==
    [i \in 1..k |->
        [customerId |-> 1, sessionId |-> "s1", productId |-> i,
         viewDuration |-> 0, timestamp |-> SeedNow - offset - i]]

RecentRequests ==
    [storeId : {1}, customerId : {NoCustomer, 1}, sessionId : {"s1"},
     limit : {NoLimit, 1, MaxViewed + 2}, excludeProductIds : {{}, {2}, {1, 2}},
     type : {"recently_viewed"}]

InitRecent ==
    /\ stores = [i \in StoreIds |-> IF i = 1 THEN MainUrl ELSE NoStore]
    /\ nextStoreId = 2
    /\ storeDbConnections = [u \in Urls |-> NoPool]
    /\ storePools = [u \in Urls |-> NoPool]
    /\ poolsCreated = 0
    /\ customerBehavior = [u \in Urls |-> <<>>]
    /\ \E k \in 0..MaxViewed, offset \in {0, 25} :
          productViews = [u \in Urls |-> IF u = MainUrl THEN DailyViews(k, offset) ELSE <<>>]
    /\ recommendations = [u \in Urls |-> <<>>]
    /\ productCategoryMappings = [u \in Urls |-> {}]
    /\ customerPreferences = [u \in Urls |-> {}]
    /\ now = SeedNow
    /\ last = Idle

NextRecent ==
    \/ /\ last.op = "none"
       /\ \E request \in RecentRequests : \E fail \in FailChoices(request.type) :
             GenerateRecommendations(request, fail)
    \/ Return

SpecRecent == InitRecent /\ [][NextRecent]_vars

(* ------------------------------------------------------------------ *)
(* Specification of the collaborative strategy: store 1 exists and its *)
(* log holds purchases of customers 1, 2 and 3, some of them repeated  *)
(* ------------------------------------------------------------------ *)
\* times purchase events of customer c for product p
RepeatedPurchase(c, p, times) ==
    [i \in 1..times |-> Event(c, "s1", "purchase", p, SeedNow - 1)]

\* own: the products customer 1 purchased once; counts: how often customer 2
\* purchased each product; third: the products customer 3 purchased once
CollabLog(own, counts, third) ==
    PurchaseLog(<<own, {}>>)
    \o RepeatedPurchase(2, 1, counts[1]) \o RepeatedPurchase(2, 2, counts[2])
    \o RepeatedPurchase(2, 3, counts[3])
    \o [i \in 1..Cardinality(third) |-> Event(3, "s3", "purchase", SetToSeq(third)[i], SeedNow - 1)]

CollabRequests ==
    [storeId : {1}, customerId : {1}, sessionId : {"s1"}, limit : {NoLimit, 1},
     excludeProductIds : {{}, {2}}, type : {"collaborative"}]

InitCollab ==
    /\ stores = [i \in StoreIds |-> IF i = 1 THEN MainUrl ELSE NoStore]
    /\ nextStoreId = 2
    /\ storeDbConnections = [u \in Urls |-> NoPool]
    /\ storePools = [u \in Urls |-> NoPool]
    /\ poolsCreated = 0
    /\ \E own \in {{1}, {1, 2}}, counts \in [Products -> 0..MaxRepeat], third \in {{}, {1, 2, 3}} :
          customerBehavior = [u \in Urls |-> IF u = MainUrl THEN CollabLog(own, counts, third) ELSE <<>>]
    /\ productViews = [u \in Urls |-> <<>>]
    /\ recommendations = [u \in Urls |-> <<>>]
    /\ productCategoryMappings = [u \in Urls |-> {}]
    /\ customerPreferences = [u \in Urls |-> {}]
    /\ now = SeedNow
    /\ last = Idle

NextCollab ==
    \/ /\ last.op = "none"
       /\ \E request \in CollabRequests : \E fail \in FailChoices(request.type) :
             GenerateRecommendations(request, fail)
    \/ Return

SpecCollab == InitCollab /\ [][NextCollab]_vars

(* ------------------------------------------------------------------ *)
(* Specification of the content-based strategy: store 1 exists, its    *)
(* customer 1 viewed up to MaxViewed products, one per day, and        *)
(* products 1, 2, 3 and 6 are mapped to categories 1..4                *)
(* ------------------------------------------------------------------ *)
\* product_category_mappings rows <<product, category>> of the products in
\* DOMAIN cats
Mappings(cats) == UNION {{<<p, k>> : k \in cats[p]} : p \in DOMAIN cats}

ContentMappings ==
    {Mappings([p \in {1, 2, 3, 6} |->
                  CASE p = 1 -> 1..n [] p = 2 -> second [] p = 3 -> third [] OTHER -> {1}]) :
        n \in 1..4, second \in {{1}, {1, 2}, 1..4}, third \in {{}, {2, 3}}}

ContentRequests ==
    [storeId : {1}, customerId : {NoCustomer, 1}, sessionId : {"s1"}, limit : {NoLimit, 1},
     excludeProductIds : {{}, {2}}, type : {"content_based"}]

InitContent ==
    /\ stores = [i \in StoreIds |-> IF i = 1 THEN MainUrl ELSE NoStore]
    /\ nextStoreId = 2
    /\ storeDbConnections = [u \in Urls |-> NoPool]
    /\ storePools = [u \in Urls |-> NoPool]
    /\ poolsCreated = 0
    /\ customerBehavior = [u \in Urls |-> <<>>]
    /\ \E k \in 0..MaxViewed :
          productViews = [u \in Urls |-> IF u = MainUrl THEN DailyViews(k, 0) ELSE <<>>]
    /\ recommendations = [u \in Urls |-> <<>>]
    /\ \E m \in ContentMappings :
          productCategoryMappings = [u \in Urls |-> IF u = MainUrl THEN m ELSE {}]
    /\ customerPreferences = [u \in Urls |-> {}]
    /\ now = SeedNow
    /\ last = Idle

NextContent ==
    \/ /\ last.op = "none"
       /\ \E request \in ContentRequests : \E fail \in FailChoices(request.type) :
             GenerateRecommendations(request, fail)
    \/ Return

SpecContent == InitContent /\ [][NextContent]_vars

(* ------------------------------------------------------------------ *)
(* Specification of the hybrid scores: store 1 exists; customer 2      *)
(* shares products 1 and 2 with customer 1 and purchased product 3 up  *)
(* to MaxPurchases times; customer 1 viewed products 1 or 3             *)
(* ------------------------------------------------------------------ *)
HybridViewSeeds == {<<>>, <<<<1, 1>>>>, <<<<3, 1>>>>, <<<<1, 2>>, <<3, 1>>>>}

HybridRequests ==
    [storeId : {1}, customerId : {NoCustomer, 1}, sessionId : {"s1"}, limit : {NoLimit, 1, 2},
     excludeProductIds : {{}, {1}}, type : {"hybrid", NoType}]

InitHybrid ==
    /\ stores = [i \in StoreIds |-> IF i = 1 THEN MainUrl ELSE NoStore]
    /\ nextStoreId = 2
    /\ storeDbConnections = [u \in Urls |-> NoPool]
    /\ storePools = [u \in Urls |-> NoPool]
    /\ poolsCreated = 0
    /\ \E times \in {0, 1, MaxPurchases} :
          customerBehavior = [u \in Urls |->
              IF u = MainUrl
              THEN PurchaseLog(<<{1, 2}, {1, 2}>>) \o RepeatedPurchase(2, 3, times)
              ELSE <<>>]
    /\ \E v \in HybridViewSeeds : productViews = [u \in Urls |-> IF u = MainUrl THEN ViewLog(v) ELSE <<>>]
    /\ recommendations = [u \in Urls |-> <<>>]
    /\ \E m \in MappingSeeds : productCategoryMappings = [u \in Urls |-> IF u = MainUrl THEN m ELSE {}]
    /\ customerPreferences = [u \in Urls |-> {}]
    /\ now = SeedNow
    /\ last = Idle

NextHybrid ==
    \/ /\ last.op = "none"
       /\ \E request \in HybridRequests, fail \in SmallFails : GenerateRecommendations(request, fail)
    \/ Return

SpecHybrid == InitHybrid /\ [][NextHybrid]_vars

(* ------------------------------------------------------------------ *)
(* Specification of the HTTP routes in front of the engine: store 1    *)
(* exists; request bodies may lack fields                               *)
(* ------------------------------------------------------------------ *)
\* a body field that is absent (undefined) fails the route's !field test
NoTenant == 0
NoSession == ""
NoAction == ""

\* What the HTTP client got: lookedUp = storage.getStore was called
Response(status, lookedUp) == [status |-> status, lookedUp |-> lookedUp]

BehaviorBodies ==
    [storeId : {NoTenant, 1}, customerId : {1}, sessionId : {NoSession, "s1"},
     action : {NoAction, "purchase"}, productId : {NoProduct, 1}, searchQuery : {NoQuery}]

\* POST /api/track-behavior
PostTrackBehavior(body, fails) ==
    /\ last.op = "none"
    /\ TotalRows < MaxRows
    /\ IF body.sessionId = NoSession \/ body.storeId = NoTenant \/ body.action = NoAction
       THEN /\ last' = Outcome("POST /api/track-behavior", body, TRUE, Response(400, FALSE), {}, <<>>)
            /\ UNCHANGED <<customerBehavior, storeDbConnections, storePools, poolsCreated>>
       ELSE LET r == trackBehavior(customerBehavior, Cache, body, fails, now)
            IN  /\ customerBehavior' = r.cb
                /\ SetCache(r.cache)
                /\ last' = Outcome("POST /api/track-behavior", body, FALSE, Response(200, TRUE),
                                   r.touched, r.steps)
    /\ UNCHANGED <<stores, nextStoreId, productViews, recommendations,
                   productCategoryMappings, customerPreferences, now>>

ViewBodies ==
    [storeId : {NoTenant, 1}, customerId : {1}, sessionId : {NoSession, "s1"},
     productId : {NoProduct, 1}, viewDuration : {45}]

\* POST /api/track-product-view: storeId is neither read from the body nor
\* handed to the engine, whose data.storeId is undefined
PostTrackProductView(body, fails) ==
    /\ last.op = "none"
    /\ TotalRows + 1 < MaxRows
    /\ IF body.productId = NoProduct \/ body.sessionId = NoSession
       THEN /\ last' = Outcome("POST /api/track-product-view", body, TRUE, Response(400, FALSE), {}, <<>>)
            /\ UNCHANGED <<customerBehavior, productViews, storeDbConnections, storePools, poolsCreated>>
       ELSE LET r == trackProductView(customerBehavior, productViews, Cache,
                                      [body EXCEPT !.storeId = NoTenant], fails, now)
            IN  /\ customerBehavior' = r.cb
                /\ productViews' = r.pv
                /\ SetCache(r.cache)
                /\ last' = Outcome("POST /api/track-product-view", body, FALSE, Response(200, TRUE),
                                   r.touched, r.steps)
    /\ UNCHANGED <<stores, nextStoreId, recommendations,
                   productCategoryMappings, customerPreferences, now>>

RecommendationBodies ==
    [storeId : {NoTenant, 1}, customerId : {1}, sessionId : {NoSession, "s1"}, limit : {NoLimit},
     excludeProductIds : {{}}, type : {"trending", NoType}]

\* POST /api/recommendations
PostRecommendations(body, fail) ==
    /\ last.op = "none"
    /\ IF body.storeId = NoTenant \/ body.sessionId = NoSession
       THEN /\ last' = Outcome("POST /api/recommendations", body, TRUE, Response(400, FALSE), {}, <<>>)
            /\ UNCHANGED <<storeDbConnections, storePools, poolsCreated>>
       ELSE \E o \in generateRecommendations(body, fail) :
               /\ SetCache(IF o.entered
                           THEN getStoreDbByUrl(storeDbConnections, storePools, poolsCreated,
                                                getStore(body.storeId))
                           ELSE Cache)
               /\ last' = Outcome("POST /api/recommendations", body, o.threw,
                                  Response(IF o.threw THEN 500 ELSE 200, TRUE),
                                  IF o.read THEN {getStore(body.storeId)} ELSE {}, <<>>)
    /\ UNCHANGED <<stores, nextStoreId, dbVars, now>>

InitRoutes ==
    /\ stores = [i \in StoreIds |-> IF i = 1 THEN MainUrl ELSE NoStore]
    /\ nextStoreId = 2
    /\ storeDbConnections = [u \in Urls |-> NoPool]
    /\ storePools = [u \in Urls |-> NoPool]
    /\ poolsCreated = 0
    /\ customerBehavior = [u \in Urls |-> <<>>]
    /\ productViews = [u \in Urls |-> <<>>]
    /\ recommendations = [u \in Urls |-> <<>>]
    /\ productCategoryMappings = [u \in Urls |-> {}]
    /\ customerPreferences = [u \in Urls |-> {}]
    /\ now = SeedNow
    /\ last = Idle

NextRoutes ==
    \/ \E body \in BehaviorBodies, f \in {"none", "lookup", "insert"} : PostTrackBehavior(body, f)
    \/ \E body \in ViewBodies, f \in {"none", "lookup", "insert"} : PostTrackProductView(body, f)
    \/ \E body \in RecommendationBodies, fail \in SmallFails : PostRecommendations(body, fail)
    \/ Return

SpecRoutes == InitRoutes /\ [][NextRoutes]_vars

(* ------------------------------------------------------------------ *)
(* Properties of the router and the tracking calls (Spec)              *)
(* ------------------------------------------------------------------ *)
EngineOps == {"generateRecommendations", "trackBehavior", "trackProductView",
              "trackRecommendationFeedback", "getRecommendationAnalytics",
              "updateCustomerPreferences"}

\* C1: tenant isolation: once trackBehavior has appended an event under one
\* tenant, the data store it wrote is the data store of no other tenant, so
\* no read scoped to another tenant sees the event.
C1_TenantIsolation ==
    (last.op = "trackBehavior" /\ last.steps # <<>>) =>
        \A other \in StoreIds \ {last.req.storeId} :
            getStore(other) # NoStore => getStore(other) \notin last.touched

\* C7: every engine operation invoked with a tenant id that matches no store
\* surfaces an error to its caller and reads or writes no tenant data store.
C7_TenantNotFoundSurfaced ==
    (last.op \in EngineOps /\ getStore(last.req.storeId) = NoStore) =>
        (last.threw /\ last.touched = {})

SameEvent(row, data) ==
    /\ row.sessionId = data.sessionId
    /\ row.action = data.action
    /\ row.customerId = data.customerId
    /\ row.productId = data.productId

\* C8: trackBehavior never raises; when its write succeeds the tenant's log
\* gains exactly one event carrying the call's sessionId, action, customerId
\* and productId and no other table or log changes; when the write fails no
\* table changes at all.
C8_TrackBehaviorBestEffort ==
    [][(last.op = "none" /\ last'.op = "trackBehavior") =>
          /\ ~last'.threw
          /\ UNCHANGED <<productViews, recommendations, productCategoryMappings,
                         customerPreferences, stores>>
          /\ IF last'.steps # <<>>
             THEN LET u == getStore(last'.req.storeId)
                  IN  /\ u # NoStore
                      /\ \A v \in Urls \ {u} : customerBehavior'[v] = customerBehavior[v]
                      /\ Len(customerBehavior'[u]) = Len(customerBehavior[u]) + 1
                      /\ SubSeq(customerBehavior'[u], 1, Len(customerBehavior[u])) = customerBehavior[u]
                      /\ SameEvent(customerBehavior'[u][Len(customerBehavior'[u])], last'.req)
             ELSE UNCHANGED customerBehavior]_vars

\* C8 witness: an event appended to a log already holding one
C8_Witness ==
    /\ last.op = "trackBehavior"
    /\ last.steps # <<>>
    /\ Len(customerBehavior[getStore(last.req.storeId)]) = 2

\* C9: a trackProductView whose two writes succeed adds exactly one
\* product_views row holding the call's viewDuration (0 when omitted) and
\* exactly one view event, both for the call's product, session and customer.
C9_ProductViewRoundTrip ==
    [][(last.op = "none" /\ last'.op = "trackProductView"
          /\ last'.steps = <<"insert product_views", "insert customer_behavior">>) =>
          LET u == getStore(last'.req.storeId)
              d == last'.req
              view == productViews'[u][Len(productViews'[u])]
              event == customerBehavior'[u][Len(customerBehavior'[u])]
          IN  /\ productViews' = [productViews EXCEPT ![u] = Append(@, view)]
              /\ customerBehavior' = [customerBehavior EXCEPT ![u] = Append(@, event)]
              /\ view.viewDuration = (IF d.viewDuration = NoDuration THEN 0 ELSE d.viewDuration)
              /\ view.productId = d.productId /\ view.sessionId = d.sessionId
              /\ view.customerId = d.customerId
              /\ event.action = "view"
              /\ event.productId = d.productId /\ event.sessionId = d.sessionId
              /\ event.customerId = d.customerId]_vars

\* C9 witness: the spec's case, viewDuration = 45, both rows written
C9_Witness ==
    /\ last.op = "trackProductView"
    /\ last.req.viewDuration = 45
    /\ last.steps = <<"insert product_views", "insert customer_behavior">>
    /\ \E r \in Range(productViews[getStore(last.req.storeId)]) : r.viewDuration = 45

\* C19: the behavior event log is append-only: every step of every engine
\* operation leaves each tenant's existing events in place and unchanged, so
\* the events of one state are still present in every later state.
C19_AppendOnlyLog ==
    [][\A u \in Urls :
          /\ Len(customerBehavior'[u]) >= Len(customerBehavior[u])
          /\ SubSeq(customerBehavior'[u], 1, Len(customerBehavior[u])) = customerBehavior[u]]_vars

\* C19 witness: a log of two events, the first still there after the second
\* was appended and a recommendation request has read the log
C19_Witness ==
    /\ last.op = "generateRecommendations"
    /\ last.touched # {}
    /\ \E u \in last.touched :
          /\ Len(customerBehavior[u]) = 2
          /\ customerBehavior[u][1].timestamp <= customerBehavior[u][2].timestamp

PreferenceRows(u, customerId, categoryId) ==
    {r \in customerPreferences[u] : /\ r.customerId = customerId
                                    /\ r.preferenceType = "category"
                                    /\ r.preferenceValue = categoryId}

\* C17: after a run of updateCustomerPreferences that met no lookup or
\* connection failure, there is exactly one preference row for the customer
\* and each category the customer's events map to, holding the fraction just
\* computed, and no (customerId, "category", categoryId) has two rows.
C17_IdempotentUpsert ==
    (last.op = "updateCustomerPreferences" /\ last.fail = "none") =>
        LET u == getStore(last.req.storeId)
            c == last.req.customerId
            strength == CategoryPreferences(customerBehavior[u], productCategoryMappings[u], c)
        IN  u # NoStore =>
               /\ \A k \in DOMAIN strength :
                     \E r \in PreferenceRows(u, c, k) :
                         /\ PreferenceRows(u, c, k) = {r}
                         /\ r.strength = Decimal4(strength[k])
               /\ \A r1, r2 \in customerPreferences[u] :
                     (/\ r1.customerId = r2.customerId
                      /\ r1.preferenceType = r2.preferenceType
                      /\ r1.preferenceValue = r2.preferenceValue) => r1 = r2

(* ------------------------------------------------------------------ *)
(* Properties of the feedback loop (SpecFeedback)                      *)
(* ------------------------------------------------------------------ *)
OtherFieldsKept(before, after, action) ==
    [after EXCEPT ![action] = before[action], ![TimeField(action)] = before[TimeField(action)]] = before

\* C10: when the feedback UPDATE runs, every recommendation row matching
\* (customerId if present, else sessionId) and productId has the action's flag
\* true and its timestamp non-null with all its other fields as before, every
\* other row is as before and no row is added or removed; when the tenant
\* resolves and no row matches, nothing changes and no error reaches the caller.
C10_FeedbackSetsOneFlag ==
    [][(last.op = "none" /\ last'.op = "trackRecommendationFeedback") =>
          LET d == last'.req
              u == getStore(d.storeId)
              before == recommendations[u]
              after == recommendations'[u]
              NoMatch == \A i \in 1..Len(before) : ~FeedbackMatches(d, before[i])
          IN  /\ last'.steps # <<>> =>
                    /\ ~last'.threw
                    /\ Len(after) = Len(before)
                    /\ \A v \in Urls \ {u} : recommendations'[v] = recommendations[v]
                    /\ \A i \in 1..Len(before) :
                          IF FeedbackMatches(d, before[i])
                          THEN /\ after[i][d.action] = TRUE
                               /\ after[i][TimeField(d.action)] # NoTime
                               /\ OtherFieldsKept(before[i], after[i], d.action)
                          ELSE after[i] = before[i]
              /\ last'.steps = <<>> => recommendations' = recommendations
              /\ (last'.touched # {} /\ NoMatch) =>
                    (~last'.threw /\ recommendations' = recommendations)]_vars

\* C10 witness: a click recorded on a row already shown at an earlier time,
\* beside a row that does not match
C10_Witness ==
    /\ last.op = "trackRecommendationFeedback"
    /\ last.req.action = "clicked"
    /\ last.steps # <<>>
    /\ \E i, j \in 1..Len(recommendations[MainUrl]) :
          LET r == recommendations[MainUrl][i]
              o == recommendations[MainUrl][j]
          IN  /\ FeedbackMatches(last.req, r)
              /\ r.clicked /\ r.shown /\ ~r.purchased
              /\ r.shownAt # NoTime /\ r.shownAt < r.clickedAt
              /\ ~FeedbackMatches(last.req, o)

(* ------------------------------------------------------------------ *)
(* Properties of recommendation generation (SpecRec)                   *)
(* ------------------------------------------------------------------ *)
Generated == last.op = "generateRecommendations"
IsHybrid == Generated /\ last.req.type \in {"hybrid", NoType}
ProductIds(results) == {results[i].productId : i \in 1..Len(results)}
AllParts == <<last.parts.collaborative, last.parts.contentBased,
              last.parts.trending, last.parts.recentlyViewed>>
Weights == <<4, 3, 2, 1>>

\* C2: a generateRecommendations answer is never longer than the requested
\* limit (10 when the request gives none).
C2_AtMostLimit ==
    Generated => Len(last.result) <= (IF last.req.limit = NoLimit THEN DefaultLimit ELSE last.req.limit)

\* C2 witness: a hybrid answer cut to limit 1 although the strategies
\* returned two or more different products
C2_Witness ==
    /\ IsHybrid
    /\ last.req.limit = 1
    /\ Len(last.result) = 1
    /\ Cardinality(UNION {ProductIds(AllParts[k]) : k \in 1..4}) >= 2

\* C3: no product of a request's excludeProductIds is in its answer.
C3_NoExcludedProduct ==
    (Generated /\ last.req.excludeProductIds # {}) =>
        ProductIds(last.result) \cap last.req.excludeProductIds = {}

\* C3 witness: a non-empty hybrid answer that excludes product 3 although the
\* requester viewed product 3 within the recently-viewed window
C3_Witness ==
    /\ IsHybrid
    /\ last.req.excludeProductIds = {3}
    /\ last.result # <<>>
    /\ last.fail = NoFail
    /\ \E r \in Range(productViews[MainUrl]) :
          /\ r.productId = 3
          /\ r.customerId = 1
          /\ r.timestamp > now - RecentWindowDays

\* what the strategies gave product p, weighted and summed
ExpectedScore(p) ==
    LET Share(k) == IF p \in ProductIds(AllParts[k])
                    THEN LET i == CHOOSE j \in 1..Len(AllParts[k]) : AllParts[k][j].productId = p
                         IN  FracMul(AllParts[k][i].score, Frac(Weights[k], 10))
                    ELSE <<0, 1>>
    IN  FracAdd(FracAdd(FracAdd(Share(1), Share(2)), Share(3)), Share(4))

ExpectedReasons(p) ==
    UNION {Range(AllParts[k][i].reasons) :
              <<k, i>> \in {x \in (1..4) \X (1..3) :
                               x[2] <= Len(AllParts[x[1]]) /\ AllParts[x[1]][x[2]].productId = p}}

\* C4: in a hybrid answer every productId appears once, and each entry has
\* type "hybrid", the sum of the weighted scores of the strategies that
\* returned its product, and the duplicate-free union of their reasons.
C4_HybridDeduplicates ==
    IsHybrid =>
        /\ \A i, j \in 1..Len(last.result) :
              last.result[i].productId = last.result[j].productId => i = j
        /\ \A i \in 1..Len(last.result) :
              LET e == last.result[i]
              IN  /\ e.type = "hybrid"
                  /\ e.score = ExpectedScore(e.productId)
                  /\ Range(e.reasons) = ExpectedReasons(e.productId)
                  /\ Cardinality(Range(e.reasons)) = Len(e.reasons)

\* C4 witness: a hybrid entry for a product that three strategies returned
C4_Witness ==
    /\ IsHybrid
    /\ \E i \in 1..Len(last.result) :
          /\ Cardinality({k \in 1..4 : last.result[i].productId \in ProductIds(AllParts[k])}) >= 3
          /\ Len(last.result[i].reasons) = 3

Failing(fail) == {k \in DOMAIN fail : fail[k] # "none"}

\* C5: when exactly one of the four strategies fails, at its store lookup or
\* at a query, the hybrid answer is the merge of what the other three returned.
C5_HybridFailureIsolation ==
    (IsHybrid /\ Cardinality(Failing(last.fail)) = 1 /\ getStore(last.req.storeId) # NoStore) =>
        last.result = Combine(last.parts.collaborative, last.parts.contentBased,
                              last.parts.trending, last.parts.recentlyViewed, Lim(last.req))

\* C6: generateRecommendations never returns an error to its caller, whatever
\* the request type and whichever store lookup or query fails.
C6_NeverThrows ==
    Generated => ~last.threw

\* C6 witness: a trending request whose store lookup failed, answered with []
C6_Witness ==
    /\ Generated
    /\ last.req.type = "trending"
    /\ last.fail.trending = "lookup"
    /\ getStore(last.req.storeId) # NoStore
    /\ ~last.threw
    /\ last.result = <<>>

(* ------------------------------------------------------------------ *)
(* Properties of concurrent callers (SpecConc)                         *)
(* ------------------------------------------------------------------ *)
Flags(row) == [a \in FeedbackActions |-> row[a]]

\* C11: under every interleaving of concurrent trackRecommendationFeedback
\* calls, no step turns a true flag of a recommendation row false, after every
\* step each row matched by a completed call has that call's flag true, and a
\* call repeating an already completed feedback leaves every row's three
\* flags as they were.
C11_ConcurrentFeedback ==
    [][/\ \A u \in Urls :
             /\ Len(recommendations'[u]) = Len(recommendations[u])
             /\ \A i \in 1..Len(recommendations[u]), a \in FeedbackActions :
                    recommendations[u][i][a] => recommendations'[u][i][a]
       /\ \A c \in last'.completed : \A i \in 1..Len(recommendations'[c.url]) :
             FeedbackMatches(c.req, recommendations'[c.url][i])
                 => recommendations'[c.url][i][c.req.action]
       /\ \A p \in Procs :
             (/\ last.calls[p].pc = "update"
              /\ last'.calls[p].pc = "idle"
              /\ [url |-> last.calls[p].url, req |-> last.calls[p].req] \in last.completed)
             => \A u \in Urls : \A i \in 1..Len(recommendations[u]) :
                    Flags(recommendations'[u][i]) = Flags(recommendations[u][i])]_vars

\* C11 witness: two callers had UPDATEs of the same row pending together,
\* both have returned, and the row carries both flags
C11_Witness ==
    /\ last.op = "concurrent"
    /\ last.raced
    /\ \A p \in Procs : last.calls[p].pc = "idle"
    /\ {c.req.action : c \in {x \in last.completed : x.url = MainUrl}} = {"shown", "clicked"}
    /\ recommendations[MainUrl][1].shown
    /\ recommendations[MainUrl][1].clicked
    /\ ~recommendations[MainUrl][1].purchased

\* C16: under every interleaving of resolutions and closeAllConnections, a
\* pool is created only for a descriptor that is not cached and is cached at
\* once, a cached handle and pool are never replaced while they stay cached,
\* every resolution returns the handle cached for its descriptor, and callers
\* that resolved the same descriptor between the same two cache clearings
\* hold the same handle.
C16_OneHandlePerDescriptor ==
    [][/\ \A u \in Urls :
             (storeDbConnections[u] # NoPool /\ storeDbConnections'[u] # NoPool) =>
                 (storeDbConnections'[u] = storeDbConnections[u] /\ storePools'[u] = storePools[u])
       /\ poolsCreated' # poolsCreated =>
             /\ poolsCreated' = poolsCreated + 1
             /\ \E u \in Urls : /\ storeDbConnections[u] = NoPool
                                /\ storeDbConnections'[u] = poolsCreated'
                                /\ storePools'[u] = poolsCreated'
       /\ \A p \in Procs :
             (last.calls[p].pc = "lookup" /\ last'.calls[p].pc = "update") =>
                 /\ last'.calls[p].handle # NoPool
                 /\ last'.calls[p].handle = storeDbConnections'[last'.calls[p].url]
       /\ \A p, q \in Procs :
             (/\ last'.calls[p].pc = "update"
              /\ last'.calls[q].pc = "update"
              /\ last'.calls[p].url = last'.calls[q].url
              /\ last'.calls[p].closes = last'.calls[q].closes)
             => last'.calls[p].handle = last'.calls[q].handle]_vars

\* C16 witness: two callers whose lookups of the same store were pending
\* together hold the one handle created for its descriptor
C16_Witness ==
    /\ last.op = "concurrent"
    /\ \A p \in {1, 2} : last.calls[p].pc = "update" /\ last.calls[p].url = MainUrl
    /\ last.calls[1].handle = last.calls[2].handle
    /\ last.calls[1].handle = storeDbConnections[MainUrl]
    /\ storePools[MainUrl] # NoPool
    /\ poolsCreated = 1

(* ------------------------------------------------------------------ *)
(* Properties of the analytics (SpecFeedback)                          *)
(* ------------------------------------------------------------------ *)
\* C12: when its statement reaches the tenant database,
\* getRecommendationAnalytics returns one row per recommendationType with
\* totalShown, totalClicked, totalPurchased and the two rates (rounded to two
\* decimals) of the shown rows created within the window.
C12_AnalyticsAggregates ==
    (last.op = "getRecommendationAnalytics" /\ last.steps # <<>>) =>
        last.result = AnalyticsRows(recommendations[getStore(last.req.storeId)], last.req.days, now)

(* ------------------------------------------------------------------ *)
(* Properties of the single strategies (SpecRec)                       *)
(* ------------------------------------------------------------------ *)
\* C13: a collaborative request without a customerId is answered with the
\* empty list and no error, whatever the logs hold and whether or not the
\* store lookup succeeds.
C13_CollaborativeNeedsCustomer ==
    (Generated /\ last.req.type = "collaborative" /\ last.req.customerId = NoCustomer) =>
        (~last.threw /\ last.result = <<>>)

\* C13 witness: such a request on a store with purchase events whose store
\* lookup failed
C13_Witness ==
    /\ Generated
    /\ last.req.type = "collaborative"
    /\ last.req.customerId = NoCustomer
    /\ last.fail.collaborative = "lookup"
    /\ \E r \in Range(customerBehavior[MainUrl]) : r.action = "purchase"
    /\ ~last.threw
    /\ last.result = <<>>

\* the purchase events of the store the request names
Purchases == Rows(customerBehavior[MainUrl], LAMBDA r : r.action = "purchase")
PurchasedBy(c) == {customerBehavior[MainUrl][i].productId :
                      i \in {j \in Purchases : customerBehavior[MainUrl][j].customerId = c}}
\* the other customers who purchased more than one product the customer purchased
SimilarTo(c) ==
    {d \in {customerBehavior[MainUrl][i].customerId : i \in Purchases} \ {c, NoCustomer} :
        Cardinality(PurchasedBy(d) \cap PurchasedBy(c)) > 1}
PurchaseCount(c, p) ==
    Cardinality({i \in Purchases : /\ customerBehavior[MainUrl][i].productId = p
                                   /\ customerBehavior[MainUrl][i].customerId \in SimilarTo(c)})

\* C14: a collaborative request for a customer, when no lookup or connection
\* fails, returns the products purchased by the customer's similar customers
\* and not by the customer, less the exclusions (all of them when they fit in
\* the limit), each with score min(n / 10, 1) for n purchases by the similar
\* customers and the reason "Customers like you also purchased this".
C14_CollaborativeResult ==
    (/\ Generated
     /\ last.req.type = "collaborative"
     /\ last.req.customerId # NoCustomer
     /\ last.req.storeId = 1
     /\ last.fail = NoFail) =>
        LET c == last.req.customerId
            expected == (UNION {PurchasedBy(d) : d \in SimilarTo(c)})
                            \ (PurchasedBy(c) \cup last.req.excludeProductIds \cup {NoProduct})
        IN  /\ ProductIds(last.result) \subseteq expected
            /\ Len(last.result) = Min(Cardinality(expected), Lim(last.req))
            /\ \A i \in 1..Len(last.result) :
                  /\ last.result[i].score = Frac(Min(PurchaseCount(c, last.result[i].productId), 10), 10)
                  /\ last.result[i].reasons = <<"Customers like you also purchased this">>

(* ------------------------------------------------------------------ *)
(* Properties of the recently-viewed ranking (SpecRecent)              *)
(* ------------------------------------------------------------------ *)
\* C15: in a recently-viewed answer the entry at rank i, counted from 0, has
\* score 0.9 - 0.1 i down to the floor 0.1: the first scores 0.9, no score
\* exceeds the one before it, none is below 0.1.
C15_RecencyScores ==
    (Generated /\ last.req.type = "recently_viewed") =>
        \A i \in 1..Len(last.result) :
            /\ last.result[i].score = (IF i <= 9 THEN Frac(10 - i, 10) ELSE <<1, 10>>)
            /\ i > 1 => FracLeq(last.result[i].score, last.result[i - 1].score)
            /\ FracLeq(<<1, 10>>, last.result[i].score)

\* C15 witness: an answer of ten entries, the first at 0.9 and the tenth held
\* at the floor
C15_Witness ==
    /\ Generated
    /\ last.req.type = "recently_viewed"
    /\ Len(last.result) = 10
    /\ last.result[1].score = <<9, 10>>
    /\ last.result[9].score = <<1, 10>>
    /\ last.result[10].score = <<1, 10>>

\* scores of a list never increase from one entry to the next
NonIncreasing(results) ==
    \A i \in 1..(Len(results) - 1) : FracLeq(results[i + 1].score, results[i].score)

\* C20: for every request type the returned list is ordered by
\* non-increasing score; so is the output of each strategy the hybrid awaited.
C20_OrderedByScore ==
    Generated =>
        /\ NonIncreasing(last.result)
        /\ \A k \in 1..4 : NonIncreasing(AllParts[k])

\* C20 witness: a hybrid answer of two entries that the sort reordered: the
\* collaborative entry, first in merge order, ends behind a higher-scored
\* entry of a later strategy
C20_Witness ==
    /\ IsHybrid
    /\ Len(last.result) = 2
    /\ last.parts.collaborative # <<>>
    /\ last.result[2].productId = last.parts.collaborative[1].productId
    /\ last.result[1].productId \notin ProductIds(last.parts.collaborative)
    /\ ~FracLeq(last.result[1].score, last.result[2].score)

(* ------------------------------------------------------------------ *)
(* Properties of the HTTP routes (SpecRoutes)                          *)
(* ------------------------------------------------------------------ *)
RouteOps == {"POST /api/track-behavior", "POST /api/track-product-view", "POST /api/recommendations"}

\* the fields the call in flight needs: sessionId and the tenant id always,
\* action for track-behavior, productId for track-product-view
LacksRequiredField ==
    \/ last.req.sessionId = NoSession
    \/ last.req.storeId = NoTenant
    \/ last.op = "POST /api/track-behavior" /\ last.req.action = NoAction
    \/ last.op = "POST /api/track-product-view" /\ last.req.productId = NoProduct

\* C18: a tracking or recommendation call that lacks a required field
\* (sessionId, action for track-behavior, productId for track-product-view,
\* the tenant id) is answered with a validation error, and neither the store
\* lookup nor any data-store statement was attempted.
C18_ValidationBeforeIO ==
    (last.op \in RouteOps /\ LacksRequiredField) =>
        /\ last.threw
        /\ last.result = Response(400, FALSE)
        /\ last.touched = {}
        /\ last.steps = <<>>

\* the fields each route does check are rejected before the lookup
C18_Witness ==
    /\ last.op = "POST /api/track-product-view"
    /\ last.req.productId = NoProduct
    /\ last.req.storeId = 1
    /\ last.result = Response(400, FALSE)

(* ------------------------------------------------------------------ *)
(* Properties of the collaborative strategy (SpecCollab)               *)
(* ------------------------------------------------------------------ *)
\* C21: every product of a collaborative answer was purchased by a customer
\* other than the target who purchased more than one distinct product the
\* target purchased; a customer sharing exactly one product with the target,
\* however often they purchased it, contributes nothing.
C21_SimilarityFloor ==
    (Generated /\ last.req.type = "collaborative") =>
        \A i \in 1..Len(last.result) :
            \E d \in SimilarTo(last.req.customerId) : last.result[i].productId \in PurchasedBy(d)

\* a customer sharing two distinct products with the target contributes
C21_Witness ==
    /\ Generated
    /\ last.req.type = "collaborative"
    /\ last.result # <<>>
    /\ SimilarTo(1) = {2}
    /\ \A i \in 1..Len(last.result) : last.result[i].productId \in PurchasedBy(2)

(* ------------------------------------------------------------------ *)
(* Properties of the content-based strategy (SpecContent)              *)
(* ------------------------------------------------------------------ *)
ContentAnswer == Generated /\ last.req.type = "content_based" /\ last.req.storeId = 1

\* the categories a product is mapped to
CategoriesOf(p) == {m[2] : m \in {x \in productCategoryMappings[MainUrl] : x[1] = p}}

\* the ProductView rows of the requester of the call in flight
ViewsOfRequester ==
    {r \in Range(productViews[MainUrl]) : Requester(last.req, r)}

\* the selections of top categories the answer can rest on: the
\* min(3, number of categories) most frequent categories of the views used
TopSelections ==
    LET used == UNION {CategoriesOf(r.productId) : r \in ViewsOfRequester}
    IN  {top \in SUBSET used : Cardinality(top) = Min(TopCategories, Cardinality(used))}

\* C22 as stated: every content-based score is min(k / 3, 1), k the number
\* of selected top categories the product is mapped to, however many
\* categories were selected.
C22_ScoreOverThree ==
    ContentAnswer =>
        \E top \in TopSelections :
            \A i \in 1..Len(last.result) :
                last.result[i].score =
                    Frac(Min(Cardinality(CategoriesOf(last.result[i].productId) \cap top), 3), 3)

\* C22 amended: every content-based score is min(k / n, 1), where n is the
\* number of top categories selected (one to three) and k the number of them
\* the product is mapped to.
C22_ScoreOverSelected ==
    ContentAnswer =>
        \E top \in TopSelections :
            \A i \in 1..Len(last.result) :
                /\ top # {}
                /\ last.result[i].score =
                      Frac(Min(Cardinality(CategoriesOf(last.result[i].productId) \cap top),
                               Cardinality(top)),
                           Cardinality(top))

\* C22 witness: two categories selected, a product in one of them scores 1/2
C22_Witness ==
    /\ ContentAnswer
    /\ CategoriesOf(1) = {1, 2}
    /\ \E i \in 1..Len(last.result) :
          /\ last.result[i].productId = 6
          /\ last.result[i].score = <<1, 2>>

\* C23: no content-based result is a product the requester has viewed:
\* no ProductView row of the request's customerId (of its sessionId when
\* there is no customerId) carries a returned productId, however many
\* views the requester has.
C23_NeverAlreadyViewed ==
    ContentAnswer =>
        ProductIds(last.result) \cap {r.productId : r \in ViewsOfRequester} = {}

\* C23 witness: the requester viewed product 1, which lies in the selected
\* category beside the returned products
C23_Witness ==
    /\ ContentAnswer
    /\ last.result # <<>>
    /\ 1 \in {r.productId : r \in ViewsOfRequester}
    /\ \E i \in 1..Len(last.result) :
          CategoriesOf(1) \cap CategoriesOf(last.result[i].productId) # {}

(* ------------------------------------------------------------------ *)
(* Properties of the trending strategy (SpecRec)                       *)
(* ------------------------------------------------------------------ *)
\* views x 1 + purchases x 3 of product p within the trending window
WeightedTotal(p) ==
    LET cb == customerBehavior[MainUrl]
        In(a) == Cardinality({i \in 1..Len(cb) : /\ cb[i].productId = p
                                                  /\ cb[i].action = a
                                                  /\ cb[i].timestamp > now - TrendingWindowDays})
    IN  In("view") + 3 * In("purchase")

\* C24: a non-empty trending answer has score 1 at its head, and every score
\* is the product's weighted total divided by the largest weighted total among
\* the returned products, also when the log holds view or purchase events
\* without a productId.
C24_TrendingNormalised ==
    (Generated /\ last.req.type = "trending" /\ last.result # <<>>) =>
        LET largest == CHOOSE m \in {WeightedTotal(q) : q \in ProductIds(last.result)} :
                           \A q \in ProductIds(last.result) : WeightedTotal(q) <= m
        IN  /\ last.result[1].score = <<1, 1>>
            /\ \A i \in 1..Len(last.result) :
                  last.result[i].score = Frac(WeightedTotal(last.result[i].productId), largest)

\* a trending answer over a log whose events all carry a productId
C24_Witness ==
    /\ Generated
    /\ last.req.type = "trending"
    /\ last.result # <<>>
    /\ last.result[1].score = <<1, 1>>
    /\ \A r \in Range(customerBehavior[MainUrl]) : r.productId # NoProduct

(* ------------------------------------------------------------------ *)
(* Properties of the hybrid scores (SpecRec)                           *)
(* ------------------------------------------------------------------ *)
\* the raw score a strategy's output gives product p, 0 when it is not in it
RawScore(part, p) ==
    IF p \in ProductIds(part)
    THEN part[CHOOSE i \in 1..Len(part) : part[i].productId = p].score
    ELSE <<0, 1>>

\* C25: in a hybrid answer the score of a product is 0.4 c + 0.3 b + 0.2 t +
\* 0.1 r, where c, b, t, r are the raw scores the collaborative,
\* content-based, trending and recently-viewed strategies gave the product
\* (0 for a strategy that did not return it).
C25_WeightedSum ==
    IsHybrid =>
        \A i \in 1..Len(last.result) :
            LET p == last.result[i].productId
                Part(k) == FracMul(Frac(Weights[k], 10), RawScore(AllParts[k], p))
            IN  last.result[i].score = FracAdd(FracAdd(Part(1), Part(2)), FracAdd(Part(3), Part(4)))

\* C25 witness: a product returned by exactly two strategies with different
\* raw scores
C25_Witness ==
    /\ IsHybrid
    /\ \E i \in 1..Len(last.result) :
          LET p == last.result[i].productId
              from == {k \in 1..4 : p \in ProductIds(AllParts[k])}
          IN  /\ Cardinality(from) = 2
              /\ \E j, k \in from : RawScore(AllParts[j], p) # RawScore(AllParts[k], p)

\* some merged entry of the hybrid answer in flight scores above 1
AboveOne == IsHybrid /\ \E i \in 1..Len(last.result) : ~FracLeq(last.result[i].score, <<1, 1>>)

\* the answer in flight holds a product that the collaborative, the
\* content-based and the trending strategy each gave their highest score, 1
StronglyRecommended ==
    /\ IsHybrid
    /\ \E i \in 1..Len(last.result) :
          \A k \in 1..3 : RawScore(AllParts[k], last.result[i].productId) = <<1, 1>>

\* C26 as stated: hybrid scores are not bounded by 1.0: a product strongly
\* recommended by several strategies gets a combined score above 1.0.
C26_ExceedsOne == StronglyRecommended => AboveOne

\* C26 amended: every merged score of a hybrid answer is at most
\* 0.4 + 0.3 + 0.2 + 0.1 x 0.9 = 0.99, so none exceeds 1.0.
C26_HybridBounded ==
    IsHybrid => \A i \in 1..Len(last.result) : FracLeq(last.result[i].score, <<99, 100>>)

\* C26 witness: a product with raw score 1 from the collaborative, the
\* content-based and the trending strategy has the combined score 0.9
C26_Witness ==
    /\ IsHybrid
    /\ \E i \in 1..Len(last.result) :
          /\ last.result[i].score = <<9, 10>>
          /\ \A k \in 1..3 : RawScore(AllParts[k], last.result[i].productId) = <<1, 1>>

(* ------------------------------------------------------------------ *)
(* Properties of shutdown (SpecConc)                                   *)
(* ------------------------------------------------------------------ *)
\* the store pools created so far that are neither ended nor registered
LeakedPools ==
    {id \in 1..poolsCreated : id \notin last.ended /\ \A u \in Urls : storePools[u] # id}

\* C27: under every interleaving of resolutions with closeAllConnections,
\* once a closeAllConnections has completed every store pool ever created is
\* ended or still registered in the cache, and in every state the handle map
\* and the pool map hold the same descriptors.
C27_NoPoolLeak ==
    /\ \A u \in Urls : (storeDbConnections[u] = NoPool) <=> (storePools[u] = NoPool)
    /\ (last.op = "concurrent" /\ last.closes > 0) => LeakedPools = {}

\* a completed closeAllConnections that ended the one pool there was
C27_Witness ==
    /\ last.op = "concurrent"
    /\ last.closes = 1
    /\ ~last.closing
    /\ poolsCreated = 1
    /\ last.ended = {1}
    /\ \A u \in Urls : storePools[u] = NoPool

(* ------------------------------------------------------------------ *)
(* C28: no public operation persists a recommendation                  *)
(* ------------------------------------------------------------------ *)
NoRecommendationRows == \A u \in Urls : recommendations[u] = <<>>

\* C28: whatever public operations of the engine and the router are called,
\* in whatever order, no Recommendation row is ever created in any tenant;
\* therefore a trackRecommendationFeedback call leaves every persisted table
\* as it was and every getRecommendationAnalytics answer is empty.
C28_NothingPersisted ==
    /\ [](NoRecommendationRows
          /\ (last.op = "getRecommendationAnalytics" => last.result = {}))
    /\ [][last'.op = "trackRecommendationFeedback" => UNCHANGED dbVars]_vars

\* a recommendation request was answered with products and the tenant's
\* recommendations table is still empty
C28_Witness ==
    /\ last.op = "generateRecommendations"
    /\ last.result # <<>>
    /\ getStore(last.req.storeId) \in Urls
    /\ recommendations[getStore(last.req.storeId)] = <<>>

(* ------------------------------------------------------------------ *)
(* C29: the two writes of trackProductView                             *)
(* ------------------------------------------------------------------ *)
\* C29: the two writes of trackProductView are ordered and not atomic.  When
\* the tenant lookup or the product_views insert fails, the view log and the
\* event log are both left as they were; when the view event's write fails
\* (its lookup or its insert), the view row of the call has been appended and
\* the event log is left as it was; an event is never logged without the view
\* row having been written; and in none of these cases does an error reach
\* the caller.
C29_OrderedNotAtomic ==
    [][(last.op = "none" /\ last'.op = "trackProductView") =>
          LET d == last'.req
              u == getStore(d.storeId)
              viewFailed == u = NoStore \/ last'.fail \in {"lookup", "insert"}
              eventFailed == ~viewFailed /\ last'.fail \in {"behaviorLookup", "behaviorInsert"}
          IN  /\ ~last'.threw
              /\ viewFailed => UNCHANGED <<productViews, customerBehavior>>
              /\ eventFailed =>
                    /\ productViews' = [productViews EXCEPT ![u] = Append(@, ViewRow(d, now))]
                    /\ UNCHANGED customerBehavior
              /\ customerBehavior' # customerBehavior => productViews' # productViews]_vars

\* a call whose view event could not be inserted: the tenant holds the view
\* row and no event
C29_Witness ==
    /\ last.op = "trackProductView"
    /\ last.fail = "behaviorInsert"
    /\ getStore(last.req.storeId) \in Urls
    /\ Len(productViews[getStore(last.req.storeId)]) = 1
    /\ customerBehavior[getStore(last.req.storeId)] = <<>>

(* ------------------------------------------------------------------ *)
(* C30: the rows a feedback UPDATE reaches                             *)
(* ------------------------------------------------------------------ *)
\* the row carries the action's flag, stamped by this call
Flagged(row, action, t) == row[action] = TRUE /\ row[TimeField(action)] = t

\* C30: a feedback UPDATE that runs reaches every matching row, not one of
\* them.  With a customerId it flags every row of that customer for the
\* product, whatever the row's sessionId and whenever the row was created, and
\* leaves as they were the rows of other customers, those with the call's
\* sessionId included; without a customerId it flags every row with the call's
\* sessionId and productId and leaves the others as they were.
C30_FlagsEveryMatch ==
    [][(last.op = "none" /\ last'.op = "trackRecommendationFeedback" /\ last'.steps # <<>>) =>
          LET d == last'.req
              before == recommendations[getStore(d.storeId)]
              after == recommendations'[getStore(d.storeId)]
          IN  /\ Len(after) = Len(before)
              /\ \A i \in 1..Len(before) :
                    IF before[i].productId # d.productId
                    THEN after[i] = before[i]
                    ELSE IF d.customerId # NoCustomer
                    THEN IF before[i].customerId = d.customerId
                         THEN Flagged(after[i], d.action, now)
                         ELSE after[i] = before[i]
                    ELSE IF before[i].sessionId = d.sessionId
                         THEN Flagged(after[i], d.action, now)
                         ELSE after[i] = before[i]]_vars

\* feedback of customer 1 in session s1 has flagged two rows of that customer
\* that were persisted at different times in another session
C30_Witness ==
    /\ last.op = "trackRecommendationFeedback"
    /\ last.steps # <<>>
    /\ last.req.customerId = 1
    /\ Len(recommendations[MainUrl]) = 2
    /\ \A i \in 1..2 :
          /\ recommendations[MainUrl][i].customerId = 1
          /\ recommendations[MainUrl][i].sessionId # last.req.sessionId
          /\ Flagged(recommendations[MainUrl][i], last.req.action, now)
    /\ recommendations[MainUrl][1].createdAt < recommendations[MainUrl][2].createdAt

====
